---- MODULE Spec2Model ----
(***************************************************************************)
(* A model of the search route of the conversational search assistant:     *)
(* POST /api/search (src/app/api/search/route.ts) with its collaborators   *)
(* searchTavily and mergeSearchResults, and the incremental decoder of the *)
(* upstream generation stream.                                             *)
(*                                                                         *)
(* Strings are sequences of one-character strings.  JavaScript values are  *)
(* records [t, v]: t is the type tag, v the payload.                       *)
(***************************************************************************)
EXTENDS Integers, Sequences, FiniteSets, TLC

----------------------------------------------------------------------------
(* Strings *)

\* The whitespace characters of the model's alphabet (String.prototype.trim,
\* trimStart and the JSON grammar agree on them).
WS == {" ", "\n"}

RECURSIVE FirstNonWs(_, _)
FirstNonWs(s, i) ==
    IF i <= Len(s) /\ s[i] \in WS THEN FirstNonWs(s, i + 1) ELSE i

RECURSIVE LastNonWs(_, _)
LastNonWs(s, i) ==
    IF i >= 1 /\ s[i] \in WS THEN LastNonWs(s, i - 1) ELSE i

\* String.prototype.trimStart
TrimStart(s) == SubSeq(s, FirstNonWs(s, 1), Len(s))

\* String.prototype.trim
Trim(s) == SubSeq(s, FirstNonWs(s, 1), LastNonWs(s, Len(s)))

----------------------------------------------------------------------------
(* JavaScript values *)

Undefined == [t |-> "undefined", v |-> <<>>]
Null      == [t |-> "null", v |-> <<>>]
JStr(s)   == [t |-> "string", v |-> s]
JNum(n)   == [t |-> "number", v |-> <<n>>]
JArr(xs)  == [t |-> "array", v |-> xs]
\* An object is the sequence of its members [k, val], in source order.
JObj(ms)  == [t |-> "object", v |-> ms]

\* ToBoolean
Truthy(x) ==
    CASE x.t \in {"undefined", "null"} -> FALSE
      [] x.t = "string" -> Len(x.v) > 0
      [] x.t = "number" -> x.v[1] # 0
      [] OTHER -> TRUE

\* x || y on strings-or-absent
OrElse(x, y) == IF Truthy(x) THEN x ELSE y

RECURSIVE LookupFrom(_, _, _)
LookupFrom(ms, key, i) ==
    IF i < 1 THEN Undefined
    ELSE IF ms[i].k = key THEN ms[i].val
    ELSE LookupFrom(ms, key, i - 1)

\* x?.key : the member of an object (the last one of that name), undefined
\* on anything else.
Get(x, key) ==
    IF x.t = "object" THEN LookupFrom(x.v, key, Len(x.v)) ELSE Undefined

\* x?.[0] followed by a member access: only an array element can carry a
\* member, so the first character of a string is left out.
First(x) ==
    IF x.t = "array" /\ Len(x.v) > 0 THEN x.v[1] ELSE Undefined

----------------------------------------------------------------------------
(* JSON.parse, on the subset of JSON made of objects, arrays and strings *)

Q  == "\""
BS == "\\"

ParseFail == [ok |-> FALSE, next |-> 0, val |-> Undefined]
ParseOk(n, x) == [ok |-> TRUE, next |-> n, val |-> x]

\* The body of a string literal, from the character after the opening quote.
RECURSIVE ParseStringBody(_, _, _)
ParseStringBody(s, i, acc) ==
    IF i > Len(s) THEN ParseFail
    ELSE IF s[i] = Q THEN ParseOk(i + 1, JStr(acc))
    ELSE IF s[i] = BS THEN
        IF i + 1 > Len(s) THEN ParseFail
        ELSE IF s[i + 1] \in {Q, BS, "/"}
            THEN ParseStringBody(s, i + 2, Append(acc, s[i + 1]))
        ELSE IF s[i + 1] = "n"
            THEN ParseStringBody(s, i + 2, Append(acc, "\n"))
        ELSE ParseFail
    ELSE IF s[i] = "\n" THEN ParseFail
    ELSE ParseStringBody(s, i + 1, Append(acc, s[i]))

RECURSIVE ParseValue(_, _)
RECURSIVE ParseMembers(_, _, _)
RECURSIVE ParseElements(_, _, _)

ParseValue(s, i) ==
    LET j == FirstNonWs(s, i) IN
    IF j > Len(s) THEN ParseFail
    ELSE IF s[j] = Q THEN ParseStringBody(s, j + 1, <<>>)
    ELSE IF s[j] = "{" THEN
        LET k == FirstNonWs(s, j + 1) IN
        IF k <= Len(s) /\ s[k] = "}" THEN ParseOk(k + 1, JObj(<<>>))
        ELSE ParseMembers(s, k, <<>>)
    ELSE IF s[j] = "[" THEN
        LET k == FirstNonWs(s, j + 1) IN
        IF k <= Len(s) /\ s[k] = "]" THEN ParseOk(k + 1, JArr(<<>>))
        ELSE ParseElements(s, k, <<>>)
    ELSE ParseFail

ParseMembers(s, i, acc) ==
    LET j == FirstNonWs(s, i) IN
    IF j > Len(s) \/ s[j] # Q THEN ParseFail
    ELSE
        LET key == ParseStringBody(s, j + 1, <<>>) IN
        IF ~key.ok THEN ParseFail
        ELSE
            LET c == FirstNonWs(s, key.next) IN
            IF c > Len(s) \/ s[c] # ":" THEN ParseFail
            ELSE
                LET x == ParseValue(s, c + 1) IN
                IF ~x.ok THEN ParseFail
                ELSE
                    LET e   == FirstNonWs(s, x.next)
                        ms  == Append(acc, [k |-> key.val.v, val |-> x.val])
                    IN  IF e > Len(s) THEN ParseFail
                        ELSE IF s[e] = "," THEN ParseMembers(s, e + 1, ms)
                        ELSE IF s[e] = "}" THEN ParseOk(e + 1, JObj(ms))
                        ELSE ParseFail

ParseElements(s, i, acc) ==
    LET x == ParseValue(s, i) IN
    IF ~x.ok THEN ParseFail
    ELSE
        LET e  == FirstNonWs(s, x.next)
            xs == Append(acc, x.val)
        IN  IF e > Len(s) THEN ParseFail
            ELSE IF s[e] = "," THEN ParseElements(s, e + 1, xs)
            ELSE IF s[e] = "]" THEN ParseOk(e + 1, JArr(xs))
            ELSE ParseFail

\* JSON.parse(s): the value, or a failure (the SyntaxError it throws).
JSONparse(s) ==
    LET r == ParseValue(s, 1) IN
    IF r.ok /\ FirstNonWs(s, r.next) > Len(s) THEN r ELSE ParseFail

----------------------------------------------------------------------------
(* The incremental decoder of the upstream generation stream *)

\* An outbound event, as enqueued on the response stream.
ReformulatedQueryEvent(q) == [type |-> "reformulated_query", query |-> q]
SourcesEvent(rs)          == [type |-> "sources", sources |-> rs]
TextEvent(c)              == [type |-> "text", content |-> c]
DoneEvent                 == [type |-> "done"]
ErrorEvent(d)             ==
    [type |-> "error", error |-> "Error while streaming AI response",
     details |-> d]

\* ScanObject counting every brace, those inside strings too.
RECURSIVE ScanObject_NoStrings(_, _, _, _, _)
ScanObject_NoStrings(trimmed, i, braceCount, inString, escaped) ==
    IF i > Len(trimmed) THEN -1
    ELSE
        LET char    == trimmed[i]
            opening == char = "{"
            closing == char = "}"
        IN  IF closing /\ braceCount - 1 = 0 THEN i
            ELSE ScanObject_NoStrings(trimmed, i + 1,
                            braceCount + (IF opening THEN 1 ELSE 0)
                                       - (IF closing THEN 1 ELSE 0),
                            inString, escaped)

\* The scan for the end of the object that starts the buffer: the for loop
\* over trimmed, with its braceCount, inString and escaped.  The result is
\* endIndex: the length of the complete object, or -1.
RECURSIVE ScanObject(_, _, _, _, _)
ScanObject(trimmed, i, braceCount, inString, escaped) ==
    IF i > Len(trimmed) THEN -1
    ELSE
        LET char    == trimmed[i]
            plain   == ~escaped /\ char # BS /\ char # Q
            opening == plain /\ ~inString /\ char = "{"
            closing == plain /\ ~inString /\ char = "}"
        IN  IF closing /\ braceCount - 1 = 0 THEN i
            ELSE ScanObject(trimmed, i + 1,
                            braceCount + (IF opening THEN 1 ELSE 0)
                                       - (IF closing THEN 1 ELSE 0),
                            IF ~escaped /\ char = Q THEN ~inString ELSE inString,
                            ~escaped /\ char = BS)

S_candidates == <<"c", "a", "n", "d", "i", "d", "a", "t", "e", "s">>
S_content    == <<"c", "o", "n", "t", "e", "n", "t">>
S_parts      == <<"p", "a", "r", "t", "s">>
S_text       == <<"t", "e", "x", "t">>
S_error      == <<"e", "r", "r", "o", "r">>
S_message    == <<"m", "e", "s", "s", "a", "g", "e">>

\* parsed.candidates?.[0]?.content?.parts?.[0]?.text || ""
ExtractContent(parsed) ==
    OrElse(Get(First(Get(Get(First(Get(parsed, S_candidates)), S_content),
                         S_parts)), S_text),
           JStr(<<>>))

\* TryObject without the test of content before the enqueue.
TryObject_EmitEmpty(jsonStr) ==
    LET r == JSONparse(jsonStr) IN
    IF ~r.ok THEN [threw |-> "SyntaxError", out |-> <<>>]
    ELSE IF Truthy(Get(r.val, S_error))
        THEN [threw |-> "Error", out |-> <<>>]
    ELSE [threw |-> "none", out |-> <<TextEvent(ExtractContent(r.val))>>]

\* The body of the try block around one sliced object: what it enqueues, and
\* what it throws ("none", "SyntaxError" from JSON.parse, "Error" for an
\* upstream error payload).
TryObject(jsonStr) ==
    LET r == JSONparse(jsonStr) IN
    IF ~r.ok THEN [threw |-> "SyntaxError", out |-> <<>>]
    ELSE IF Truthy(Get(r.val, S_error))
        THEN [threw |-> "Error", out |-> <<>>]
    ELSE
        LET content == ExtractContent(r.val) IN
        [threw |-> "none",
         out   |-> IF Truthy(content) THEN <<TextEvent(content)>> ELSE <<>>]

\* HandleObject whose catch passes the span on as text.
HandleObject_RawFallback(jsonStr) ==
    LET r == TryObject(jsonStr) IN
    [out |-> IF r.threw = "none" THEN r.out ELSE <<TextEvent(JStr(jsonStr))>>,
     log |-> IF r.threw = "none" THEN {}
             ELSE {"Failed to parse Gemini JSON object"}]

\* The try with its catch: the catch logs whatever was thrown and lets the
\* loop go on.  The result is what was enqueued and what was logged.
HandleObject(jsonStr) ==
    LET r == TryObject(jsonStr) IN
    [out |-> r.out,
     log |-> (IF r.threw = "Error" THEN {"Gemini returned an error"} ELSE {})
             \cup (IF r.threw # "none"
                   THEN {"Failed to parse Gemini JSON object"} ELSE {})]

\* DecodeIteration whose incomplete-object branch skips a character, as the
\* unexpected-format branch does.
DecodeIteration_DropPartial(buffer) ==
    LET trimmed == TrimStart(buffer)
        none    == [buffer |-> buffer, out |-> <<>>, log |-> {},
                    spans |-> <<>>, processedSomething |-> FALSE,
                    left |-> TRUE]
    IN
    IF Len(trimmed) = 0 THEN none
    ELSE IF trimmed[1] = "["
        THEN [none EXCEPT !.buffer = Tail(trimmed), !.left = FALSE]
    ELSE IF trimmed[1] = "{" /\ ScanObject(trimmed, 1, 0, FALSE, FALSE) > 0
        THEN
            LET endIndex == ScanObject(trimmed, 1, 0, FALSE, FALSE)
                jsonStr  == SubSeq(trimmed, 1, endIndex)
                h        == HandleObject(jsonStr)
            IN  [buffer |-> SubSeq(trimmed, endIndex + 1, Len(trimmed)),
                 out |-> h.out, log |-> h.log, spans |-> <<jsonStr>>,
                 processedSomething |-> TRUE, left |-> FALSE]
    ELSE [none EXCEPT !.buffer = Tail(trimmed),
                      !.processedSomething = TRUE, !.left = FALSE]

\* DecodeIteration whose unexpected-format branch keeps the character.
DecodeIteration_NoSkip(buffer) ==
    LET trimmed == TrimStart(buffer)
        none    == [buffer |-> buffer, out |-> <<>>, log |-> {},
                    spans |-> <<>>, processedSomething |-> FALSE,
                    left |-> TRUE]
    IN
    IF Len(trimmed) = 0 THEN none
    ELSE IF trimmed[1] = "["
        THEN [none EXCEPT !.buffer = Tail(trimmed), !.left = FALSE]
    ELSE IF trimmed[1] \in {"]", ","}
        THEN [none EXCEPT !.buffer = Tail(trimmed),
                          !.processedSomething = TRUE, !.left = FALSE]
    ELSE IF trimmed[1] = "{" THEN
        LET endIndex == ScanObject(trimmed, 1, 0, FALSE, FALSE) IN
        IF endIndex > 0 THEN
            LET jsonStr == SubSeq(trimmed, 1, endIndex)
                h       == HandleObject(jsonStr)
            IN  [buffer |-> SubSeq(trimmed, endIndex + 1, Len(trimmed)),
                 out |-> h.out, log |-> h.log, spans |-> <<jsonStr>>,
                 processedSomething |-> TRUE, left |-> FALSE]
        ELSE none
    ELSE [none EXCEPT !.buffer = trimmed,
                      !.processedSomething = TRUE, !.left = FALSE]

\* One iteration of the inner while loop, entered with a buffer that is not
\* empty: the buffer it leaves, what it enqueued, logged and sliced off the
\* buffer (jsonStr), the processedSomething it ends with, and whether it
\* left the loop by a break.
DecodeIteration(buffer) ==
    LET trimmed == TrimStart(buffer)
        none    == [buffer |-> buffer, out |-> <<>>, log |-> {},
                    spans |-> <<>>, processedSomething |-> FALSE,
                    left |-> TRUE]
    IN
    IF Len(trimmed) = 0 THEN none
    ELSE IF trimmed[1] = "["
        THEN [none EXCEPT !.buffer = Tail(trimmed), !.left = FALSE]
    ELSE IF trimmed[1] \in {"]", ","}
        THEN [none EXCEPT !.buffer = Tail(trimmed),
                          !.processedSomething = TRUE, !.left = FALSE]
    ELSE IF trimmed[1] = "{" THEN
        LET endIndex == ScanObject(trimmed, 1, 0, FALSE, FALSE) IN
        IF endIndex > 0 THEN
            LET jsonStr == SubSeq(trimmed, 1, endIndex)
                h       == HandleObject(jsonStr)
            IN  [buffer |-> SubSeq(trimmed, endIndex + 1, Len(trimmed)),
                 out |-> h.out, log |-> h.log, spans |-> <<jsonStr>>,
                 processedSomething |-> TRUE, left |-> FALSE]
        ELSE none
    ELSE [none EXCEPT !.buffer = Tail(trimmed),
                      !.processedSomething = TRUE, !.left = FALSE]

\* The inner while loop over the buffer, after a chunk was appended: the
\* buffer left, the events enqueued, the log lines written, and the spans
\* (jsonStr) sliced off the buffer.  AfterIteration is the loop from the end
\* of an iteration on.
RECURSIVE DecodeLoop(_, _, _, _, _)
RECURSIVE AfterIteration(_, _, _, _)
AfterIteration(it, out, log, spans) ==
    IF it.left
        THEN [buffer |-> it.buffer, out |-> out \o it.out,
              log |-> log \cup it.log, spans |-> spans \o it.spans]
    ELSE DecodeLoop(it.buffer, out \o it.out, log \cup it.log,
                    spans \o it.spans, it.processedSomething)

DecodeLoop(buffer, out, log, spans, processedSomething) ==
    IF ~(processedSomething /\ Len(buffer) > 0)
        THEN [buffer |-> buffer, out |-> out, log |-> log, spans |-> spans]
    ELSE AfterIteration(DecodeIteration(buffer), out, log, spans)

\* One pass of the outer loop body: append the chunk, then decode.
DecodeChunk(buffer, chunk) == DecodeLoop(buffer \o chunk, <<>>, {}, <<>>, TRUE)

----------------------------------------------------------------------------
(* Upstream generation bodies *)

KeyOpen(k) == <<"{", Q>> \o k \o <<Q, ":">>

\* {"candidates":[{"content":{"parts":[{"text":"<t>"}]}}]}
GeminiText(t) ==
    KeyOpen(S_candidates) \o <<"[">> \o KeyOpen(S_content) \o KeyOpen(S_parts)
    \o <<"[">> \o KeyOpen(S_text) \o <<Q>> \o t \o <<Q>>
    \o <<"}", "]", "}", "}", "]", "}">>

\* {"error":{"message":"<m>"}}
GeminiError(m) ==
    KeyOpen(S_error) \o KeyOpen(S_message) \o <<Q>> \o m \o <<Q, "}", "}">>

\* A brace-balanced span that is not JSON.
BadObject == <<"{", "x", "}">>

Body_OneInArray  == <<"[">> \o GeminiText(<<"a">>) \o <<"]">>
Body_TwoInArray  ==
    <<"[">> \o GeminiText(<<"a">>) \o <<",", "\n">> \o GeminiText(<<"b">>)
    \o <<"]">>
Body_BareObject  == GeminiText(<<"a">>)
Body_ErrorFirst  ==
    <<"[">> \o GeminiError(<<"e">>) \o <<",">> \o GeminiText(<<"b">>)
    \o <<"]">>
Body_BadFirst    ==
    <<"[">> \o BadObject \o <<",">> \o GeminiText(<<"b">>) \o <<"]">>

\* A body with what it says: text is the concatenation of the text fragments
\* of its objects, in order; kind tells whether one of its objects is an
\* error payload ("error") or is not JSON ("bad").
Bodies ==
    { [chars |-> Body_OneInArray, text |-> <<"a">>, kind |-> "text"],
      [chars |-> Body_TwoInArray, text |-> <<"a", "b">>, kind |-> "text"],
      [chars |-> Body_BareObject, text |-> <<"a">>, kind |-> "text"],
      [chars |-> Body_ErrorFirst, text |-> <<"b">>, kind |-> "error"],
      [chars |-> Body_BadFirst, text |-> <<"b">>, kind |-> "bad"] }

----------------------------------------------------------------------------
(* Content sanitizer: processRawContent *)

maxLength == 300

IsPrefixAt(s, i, pat) ==
    /\ i + Len(pat) - 1 <= Len(s)
    /\ \A k \in 1..Len(pat) : s[i + k - 1] = pat[k]

\* The characters f gives for the positions of s, in order; "" is no
\* character.
Emit(s, f(_)) ==
    SelectSeq([i \in 1..Len(s) |-> f(i)], LAMBDA c : c # "")

\* String.prototype.replace(/pat/g, rep) for a literal pattern no two
\* occurrences of which can overlap (it starts with "&" and holds no other),
\* and a replacement of one character.
ReplaceAll(s, pat, rep) ==
    LET starts(i)  == IsPrefixAt(s, i, pat)
        covered(i) == \E j \in (i - Len(pat) + 1)..(i - 1) :
                          j >= 1 /\ starts(j)
        out(i) == IF starts(i) THEN rep
                  ELSE IF covered(i) THEN ""
                  ELSE s[i]
    IN  IF \E i \in 1..Len(s) : s[i] = pat[1] THEN Emit(s, out) ELSE s

\* replace(/<[^>]*>/g, " "): a match runs from a "<" to the first ">" after
\* it, and the search goes on after that ">".  Position i is in a match when
\* a "<" lies between the last ">" before i and i, and a ">" at i or later.
StripTags(s) ==
    LET lastGt(i) ==
            LET G == {k \in 1..(i - 1) : s[k] = ">"} IN
            IF G = {} THEN 0 ELSE CHOOSE k \in G : \A m \in G : m <= k
        inTag(i) ==
            /\ \E k \in i..Len(s) : s[k] = ">"
            /\ \E j \in (lastGt(i) + 1)..i : s[j] = "<"
        out(i) == IF ~inTag(i) THEN s[i]
                  ELSE IF s[i] = ">" THEN " "
                  ELSE ""
    IN  IF \E i \in 1..Len(s) : s[i] = "<" THEN Emit(s, out) ELSE s

\* replace(/\s+/g, " ")
CollapseWs(s) ==
    LET out(i) == IF s[i] \notin WS THEN s[i]
                  ELSE IF i > 1 /\ s[i - 1] \in WS THEN ""
                  ELSE " "
    IN  Emit(s, out)

\* replace(/\n\s*\n/g, "\n")
RECURSIVE BlankLinesFrom(_, _, _)
BlankLinesFrom(s, i, acc) ==
    IF i > Len(s) THEN acc
    ELSE IF s[i] = "\n"
              /\ \E j \in (i + 1)..Len(s) :
                    s[j] = "\n" /\ \A k \in (i + 1)..(j - 1) : s[k] \in WS
        THEN LET last == CHOOSE j \in (i + 1)..Len(s) :
                            /\ s[j] = "\n"
                            /\ \A k \in (i + 1)..(j - 1) : s[k] \in WS
                            /\ \A m \in (j + 1)..Len(s) :
                                  ~(s[m] = "\n"
                                    /\ \A k \in (i + 1)..(m - 1) : s[k] \in WS)
             IN  BlankLinesFrom(s, last + 1, Append(acc, "\n"))
    ELSE BlankLinesFrom(s, i + 1, Append(acc, s[i]))

CollapseBlankLines(s) ==
    IF \E i \in 1..Len(s) : s[i] = "\n" THEN BlankLinesFrom(s, 1, <<>>)
    ELSE s

\* The characters of [\w\s.,!?;:()\-'"].
WordChars ==
    {"a", "b", "c", "d", "e", "f", "g", "h", "i", "j", "k", "l", "m", "n", "o",
     "p", "q", "r", "s", "t", "u", "v", "w", "x", "y", "z", "A", "B", "C", "D",
     "E", "F", "G", "H", "I", "J", "K", "L", "M", "N", "O", "P", "Q", "R", "S",
     "T", "U", "V", "W", "X", "Y", "Z", "0", "1", "2", "3", "4", "5", "6", "7",
     "8", "9", "_"}
KeptChars ==
    WordChars \cup WS
    \cup {".", ",", "!", "?", ";", ":", "(", ")", "-", "'", Q}

\* String.prototype.lastIndexOf, 0-based, -1 when absent.
lastIndexOf(s, c) ==
    LET I == {i \in 1..Len(s) : s[i] = c} IN
    IF I = {} THEN -1 ELSE (CHOOSE i \in I : \A j \in I : j <= i) - 1

\* Max3 that looks at its first argument only.
Max3_First(a, b, c) == a

Max3(a, b, c) ==
    IF a >= b /\ a >= c THEN a ELSE IF b >= c THEN b ELSE c

\* Slice0 that cuts nothing.
Slice0_Whole(s, n) == s

\* slice(0, n)
Slice0(s, n) == SubSeq(s, 1, IF n > Len(s) THEN Len(s) ELSE n)

Ellipsis == <<".", ".", ".">>

\* The decoding of the named entities, in the order of the code.
DecodeEntities(s) ==
    LET r1 == ReplaceAll(s, <<"&", "n", "b", "s", "p", ";">>, " ")
        r2 == ReplaceAll(r1, <<"&", "a", "m", "p", ";">>, "&")
        r3 == ReplaceAll(r2, <<"&", "l", "t", ";">>, "<")
        r4 == ReplaceAll(r3, <<"&", "g", "t", ";">>, ">")
        r5 == ReplaceAll(r4, <<"&", "q", "u", "o", "t", ";">>, Q)
        r6 == ReplaceAll(r5, <<"&", "#", "3", "9", ";">>, "'")
    IN  ReplaceAll(r6, <<"&", "a", "p", "o", "s", ";">>, "'")

\* The truncation of the cleaned text to about maxLength characters.
Truncate(cleaned) ==
    IF Len(cleaned) <= maxLength THEN cleaned
    ELSE
        LET truncated       == Slice0(cleaned, maxLength)
            lastSentenceEnd == Max3(lastIndexOf(truncated, "."),
                                    lastIndexOf(truncated, "?"),
                                    lastIndexOf(truncated, "!"))
            lastSpace       == lastIndexOf(truncated, " ")
        IN  IF lastSentenceEnd * 10 > maxLength * 8
                THEN Trim(Slice0(truncated, lastSentenceEnd + 1))
            ELSE IF lastSpace > 0
                THEN Trim(Slice0(truncated, lastSpace)) \o Ellipsis
            ELSE Trim(truncated) \o Ellipsis

\* The text before truncation: tags stripped, entities decoded, whitespace
\* normalised and trimmed, then the characters that are not kept removed.
CleanText(s) ==
    LET stripped == StripTags(s)
        decoded  == DecodeEntities(stripped)
        spaced   == Trim(CollapseBlankLines(CollapseWs(decoded)))
    IN  SelectSeq(spaced, LAMBDA c : c \in KeptChars)

\* processRawContent(rawContent), rawContent a JavaScript value.
processRawContent(rawContent) ==
    IF ~Truthy(rawContent) \/ rawContent.t # "string" THEN <<>>
    ELSE Truncate(CleanText(rawContent.v))

----------------------------------------------------------------------------
(* Search client: mergeSearchResults *)

\* MapSet that never replaces an entry.
MapSet_KeepFirst(urlMap, result) ==
    IF \E i \in 1..Len(urlMap) : urlMap[i].url = result.url
        THEN urlMap
        ELSE Append(urlMap, result)

\* Map.prototype.set on a map kept as the sequence of its values in
\* insertion order, keyed by url.
MapSet(urlMap, result) ==
    IF \E i \in 1..Len(urlMap) : urlMap[i].url = result.url
        THEN [i \in 1..Len(urlMap) |->
                IF urlMap[i].url = result.url THEN result ELSE urlMap[i]]
        ELSE Append(urlMap, result)

MapHas(urlMap, url) == \E i \in 1..Len(urlMap) : urlMap[i].url = url
MapGet(urlMap, url) ==
    urlMap[CHOOSE i \in 1..Len(urlMap) : urlMap[i].url = url]

RECURSIVE AddFirst(_, _, _)
AddFirst(urlMap, results1, i) ==
    IF i > Len(results1) THEN urlMap
    ELSE AddFirst(MapSet(urlMap, results1[i]), results1, i + 1)

\* AddSecond that overwrites on an equal score too.
RECURSIVE AddSecond_OverwriteOnTie(_, _, _)
AddSecond_OverwriteOnTie(urlMap, results2, i) ==
    IF i > Len(results2) THEN urlMap
    ELSE
        LET result == results2[i] IN
        IF ~MapHas(urlMap, result.url)
           \/ result.score >= MapGet(urlMap, result.url).score
            THEN AddSecond_OverwriteOnTie(MapSet(urlMap, result), results2,
                                          i + 1)
            ELSE AddSecond_OverwriteOnTie(urlMap, results2, i + 1)

\* AddSecond that overwrites whatever the score.
RECURSIVE AddSecond_AlwaysOverwrite(_, _, _)
AddSecond_AlwaysOverwrite(urlMap, results2, i) ==
    IF i > Len(results2) THEN urlMap
    ELSE AddSecond_AlwaysOverwrite(MapSet(urlMap, results2[i]), results2,
                                   i + 1)

RECURSIVE AddSecond(_, _, _)
AddSecond(urlMap, results2, i) ==
    IF i > Len(results2) THEN urlMap
    ELSE
        LET result == results2[i] IN
        IF ~MapHas(urlMap, result.url)
           \/ result.score > MapGet(urlMap, result.url).score
            THEN AddSecond(MapSet(urlMap, result), results2, i + 1)
            ELSE AddSecond(urlMap, results2, i + 1)

\* InsertByScore that keeps the order of arrival.
InsertByScore_Unsorted(sorted, r) == Append(sorted, r)

\* Array.prototype.sort((a, b) => b.score - a.score): stable, descending.
RECURSIVE InsertByScore(_, _)
InsertByScore(sorted, r) ==
    IF sorted = <<>> THEN <<r>>
    ELSE IF sorted[Len(sorted)].score >= r.score THEN Append(sorted, r)
    ELSE Append(InsertByScore(SubSeq(sorted, 1, Len(sorted) - 1), r),
                sorted[Len(sorted)])

RECURSIVE SortByScore(_, _, _)
SortByScore(xs, i, acc) ==
    IF i > Len(xs) THEN acc
    ELSE SortByScore(xs, i + 1, InsertByScore(acc, xs[i]))

mergeSearchResults(results1, results2) ==
    SortByScore(AddSecond(AddFirst(<<>>, results1, 1), results2, 1), 1, <<>>)

----------------------------------------------------------------------------
(* Inputs: requests, environment, and the answers of the providers *)

\* Query values of a request body: absent, not a string, empty, only
\* whitespace, padded.
QueryValues ==
    { Undefined, JNum(7), JStr(<<>>), JStr(<<" ">>), JStr(<<" ", "a">>) }

PriorEntry == [query |-> <<"p">>, answer |-> <<"r">>, sources |-> <<>>]

\* conversationHistory values: absent, empty, one prior turn, not an array.
HistoryValues ==
    { Undefined, JArr(<<>>), JArr(<<PriorEntry>>), JStr(<<"h">>) }

\* A request: json is whether request.json() yields a value.
Requests ==
    { [json |-> FALSE, query |-> Undefined, conversationHistory |-> Undefined] }
    \cup { [json |-> TRUE, query |-> q, conversationHistory |-> h] :
             q \in QueryValues, h \in HistoryValues }

ResultA2 ==
    [title |-> "A", url |-> "u1", content |-> <<"s">>, score |-> 3,
     raw_content |-> JStr(<<"<", "b", ">", "t", "&", "a", "m", "p", ";">>)]
ResultB  ==
    [title |-> "B", url |-> "u2", content |-> <<"s">>, score |-> 2,
     raw_content |-> Undefined]

\* A raw content the replace calls of processRawContent give up on: the
\* engine throws inside the call.
TooLarge == JStr(<<"<", "too large", ">">>)
ResultC  ==
    [title |-> "C", url |-> "u3", content |-> <<"c">>, score |-> 2,
     raw_content |-> TooLarge]

\* What one call of the search provider comes back with: the fetch fails,
\* a status that is not ok, a body without a results array, or results.
SearchOutcomes ==
    { [kind |-> "network", results |-> <<>>],
      [kind |-> "status", results |-> <<>>],
      [kind |-> "format", results |-> <<>>],
      [kind |-> "ok", results |-> <<>>],
      [kind |-> "ok", results |-> <<ResultA2, ResultB>>],
      [kind |-> "ok", results |-> <<ResultC>>] }

\* What the reformulation call comes back with: the fetch fails, a status
\* that is not ok, or a body (not JSON, with a blank text, with a text).
ReformulateOutcomes ==
    { [kind |-> "network", body |-> <<>>],
      [kind |-> "status", body |-> <<>>],
      [kind |-> "ok", body |-> <<"x">>],
      [kind |-> "ok", body |-> GeminiText(<<" ">>)],
      [kind |-> "ok", body |-> GeminiText(<<"b", " ">>)] }

NoBody == [chars |-> <<>>, text |-> <<>>, kind |-> "none"]

\* What the generation call comes back with: the fetch fails, a status that
\* is not ok, a response without a body, or a body to stream.
\* A status that is not ok comes with response.text(), the error body.
UpstreamStatuses == {429, 503}
ErrorTexts == {"quota exceeded", ""}

GenerateOutcomes ==
    { [kind |-> "network", status |-> 0, errorText |-> "", body |-> NoBody] }
    \cup { [kind |-> "status", status |-> st, errorText |-> e, body |-> NoBody] :
              st \in UpstreamStatuses, e \in ErrorTexts }
    \cup { [kind |-> "nobody", status |-> 200, errorText |-> "", body |-> NoBody] }
    \cup { [kind |-> "ok", status |-> 200, errorText |-> "", body |-> b] :
              b \in Bodies }

\* ${response.status} in a template literal: the decimal numeral.
StatusText(st) ==
    CASE st = 200 -> "200"
      [] st = 429 -> "429"
      [] st = 503 -> "503"
      [] OTHER -> "0"

\* GenerateFailureMessage that tells nothing of the response.
GenerateFailureMessage_Generic(outcome) == <<"Unknown streaming error">>

\* error.message of what the generation start throws, as the parts of its
\* template literal.
GenerateFailureMessage(outcome) ==
    CASE outcome.kind = "network" -> <<"fetch failed">>
      [] outcome.kind = "status" ->
            <<"Gemini API returned status ", StatusText(outcome.status),
              ": ", outcome.errorText>>
      [] OTHER -> <<"No response body from Gemini">>

----------------------------------------------------------------------------
(* Validation and the reformulator *)

\* QuerySchema without the length check.
QuerySchema_NoMin(q) ==
    IF q.t = "string"
        THEN [success |-> TRUE, data |-> Trim(q.v)]
        ELSE [success |-> FALSE, data |-> <<>>]

\* z.string().min(1, ...).trim(): the checks run in the order written, the
\* length check on the string as received, then the trim.
QuerySchema(q) ==
    IF q.t = "string" /\ Len(q.v) >= 1
        THEN [success |-> TRUE, data |-> Trim(q.v)]
        ELSE [success |-> FALSE, data |-> <<>>]

\* z.array(conversationEntrySchema).optional()
HistorySchema(h) ==
    IF h.t \in {"undefined", "array"}
        THEN [success |-> TRUE, data |-> h]
        ELSE [success |-> FALSE, data |-> Undefined]

\* searchRequestSchema.safeParse(body)
searchRequestSchema(body) ==
    LET q == QuerySchema(body.query)
        h == HistorySchema(body.conversationHistory)
    IN  [success |-> q.success /\ h.success,
         query |-> q.data, conversationHistory |-> h.data]

\* HasHistory without the length check.
HasHistory_AnyArray(h) == h.t = "array"

\* conversationHistory && conversationHistory.length > 0
HasHistory(h) == h.t = "array" /\ Len(h.v) > 0

\* reformulateQuery without the fallback to the query for an empty text.
reformulateQuery_NoFallback(query, outcome) ==
    IF outcome.kind # "ok" THEN [threw |-> TRUE, value |-> Null]
    ELSE
        LET data == JSONparse(outcome.body) IN
        IF ~data.ok THEN [threw |-> TRUE, value |-> Null]
        ELSE
            LET text == Get(First(Get(Get(First(Get(data.val, S_candidates)),
                                          S_content), S_parts)), S_text)
            IN  IF text.t \notin {"string", "undefined", "null"}
                    THEN [threw |-> TRUE, value |-> Null]
                ELSE [threw |-> FALSE,
                      value |-> IF text.t = "string"
                                   THEN JStr(Trim(text.v)) ELSE Undefined]

\* reformulateQuery falling back to the query by itself on a failed call.
reformulateQuery_FallbackInside(query, outcome) ==
    [threw |-> FALSE, value |-> JStr(query)]

\* reformulateQuery, given what the call came back with: what it returns, or
\* that it throws.
reformulateQuery(query, outcome) ==
    IF outcome.kind # "ok" THEN [threw |-> TRUE, value |-> Null]
    ELSE
        LET data == JSONparse(outcome.body) IN
        IF ~data.ok THEN [threw |-> TRUE, value |-> Null]
        ELSE
            LET text == Get(First(Get(Get(First(Get(data.val, S_candidates)),
                                          S_content), S_parts)), S_text)
            IN  IF text.t \notin {"string", "undefined", "null"}
                    THEN [threw |-> TRUE, value |-> Null]
                ELSE [threw |-> FALSE,
                      value |-> OrElse(IF text.t = "string"
                                          THEN JStr(Trim(text.v)) ELSE Undefined,
                                       JStr(query))]

\* searchTavily before its fetch: the configuration and query checks.
SearchPrecheck(tavilyKey, q) ==
    IF ~tavilyKey THEN "TAVILY_API_KEY is not configured"
    ELSE IF Len(Trim(q)) = 0 THEN "Search query cannot be empty"
    ELSE "ok"

\* processRawContent throws: it holds no throw of its own, what the try
\* around its call catches is an exception of the engine inside it.
processRawContentThrows(rawContent) == rawContent = TooLarge

\* The callback of searchResults.map throws out of its try.
SanitizeFails(result) ==
    Truthy(result.raw_content) /\ processRawContentThrows(result.raw_content)

\* WithFullContent whose catch leaves the full content empty.
WithFullContent_NoFallback(result) ==
    [title |-> result.title, url |-> result.url, content |-> result.content,
     score |-> result.score, raw_content |-> result.raw_content,
     fullContent |-> IF SanitizeFails(result) THEN <<>>
                     ELSE IF Truthy(result.raw_content)
                        THEN processRawContent(result.raw_content)
                        ELSE result.content]

\* The per-result step that adds fullContent: the try, and the catch that
\* falls back to the snippet.
WithFullContent(result) ==
    [title |-> result.title, url |-> result.url, content |-> result.content,
     score |-> result.score, raw_content |-> result.raw_content,
     fullContent |-> IF SanitizeFails(result) THEN result.content
                     ELSE IF Truthy(result.raw_content)
                        THEN processRawContent(result.raw_content)
                        ELSE result.content]

ProcessResults(results) ==
    [i \in 1..Len(results) |-> WithFullContent(results[i])]

\* The console.error lines of the catch.
ProcessLog(results) ==
    IF \E i \in 1..Len(results) : SanitizeFails(results[i])
        THEN {"Failed to process raw_content"} ELSE {}

\* One line group of sourcesContext: `[${index + 1}] ${result.title}\nURL:
\* ${result.url}\nContent: ${contentToUse}\n`, number being index + 1 for
\* the result at position number of the sequence.
SourceContext(result, number) ==
    [number  |-> number,
     title   |-> result.title,
     url     |-> result.url,
     content |-> IF Len(result.fullContent) > 0 THEN result.fullContent
                                               ELSE result.content]

\* buildContextPrompt numbering the results from 0.
buildContextPrompt_FromZero(q, results, history) ==
    [query |-> q,
     sourcesContext |->
        [k \in 1..Len(results) |-> SourceContext(results[k], k - 1)],
     conversationContext |-> IF HasHistory(history) THEN history.v ELSE <<>>]

\* buildContextPrompt: the prompt, as the parts its template is filled with.
buildContextPrompt(q, results, history) ==
    [query |-> q,
     sourcesContext |->
        [k \in 1..Len(results) |-> SourceContext(results[k], k)],
     conversationContext |-> IF HasHistory(history) THEN history.v ELSE <<>>]

\* sourcesToUse[citationNumber - 1] in renderAnswerWithCitations: the source
\* a citation number is rendered with, undefined when there is none.
CitedSource(sourcesToUse, citationNumber) ==
    IF citationNumber - 1 >= 0 /\ citationNumber - 1 < Len(sourcesToUse)
        THEN sourcesToUse[citationNumber]
        ELSE Undefined

----------------------------------------------------------------------------
(* The request handler POST as a state machine *)

VARIABLES
    env,                  \* which API keys the process environment holds
    body,                 \* the request received
    reformulation,        \* what the reformulation call came back with
    pc,                   \* where the handler is: start, reformulate, search,
                          \* generate, read, done
    query,                \* validationResult.data.query
    conversationHistory,  \* validationResult.data.conversationHistory
    reformulatedQuery,    \* null, or what reformulateQuery returned
    searches,             \* per search call: none, rejected (before its
                          \* fetch), pending, or how it came back
    found,                \* per search call: the results it returned
    settled,              \* the search calls in the order they came back
    searchResults,        \* the results the turn answers from
    status,               \* transport status of the response, 0 before it
    respBody,             \* the JSON error body of a response that is no stream
    events,               \* the events enqueued on the response stream
    closed,               \* whether controller.close() has run
    generation,           \* what the generation call came back with
    upstream,             \* the body the generation call streams
    pos,                  \* how much of it has been read
    buffer,               \* the decoder's buffer
    calls,                \* the outbound calls issued, in order
    log,                  \* the console.error lines written
    results1,             \* mergeSearchResults: its first argument
    results2,             \* mergeSearchResults: its second argument
    merged,               \* mergeSearchResults: what it returned
    rawContent,           \* processRawContent: its argument
    sanitized,            \* processRawContent: what it returned
    tavilyData,           \* searchTavily: the results of the provider's answer
    tavilyReturn,         \* searchTavily: what it returned, and the turn's
                          \* answer to it
    wire,                 \* the decoder: the upstream body it is fed
    fed,                  \* the decoder: how much of the body it was fed
    dec,                  \* the decoder: its buffer, and what it has enqueued,
                          \* logged and sliced off so far
    ui,                   \* the page: its React state
    turn,                 \* the page: the locals of the running handleSubmit
    response              \* the page: the response its fetch came back with

serverVars ==
    <<env, body, reformulation, pc, query, conversationHistory,
      reformulatedQuery, searches, found, settled, searchResults, status,
      respBody, events, closed, generation, upstream, pos, buffer, calls, log>>

mergeVars == <<results1, results2, merged>>

sanitizeVars == <<rawContent, sanitized>>

clientVars == <<ui, turn, response>>

tavilyVars == <<tavilyData, tavilyReturn>>

decodeVars == <<wire, fed, dec>>

vars ==
    <<serverVars, mergeVars, sanitizeVars, tavilyVars, decodeVars, clientVars>>

NoError == [error |-> "", details |-> ""]
NoSearches == [original |-> "none", reformulated |-> "none"]
NoRequest == [json |-> FALSE, query |-> Undefined, conversationHistory |-> Undefined]
NoCall  == [kind |-> "none", body |-> <<>>]
Pending == [kind |-> "pending", body |-> <<>>]
NoGeneration == [kind |-> "none", status |-> 0, errorText |-> ""]
NoFound == [original |-> <<>>, reformulated |-> <<>>]
Roles == {"original", "reformulated"}

\* No call of mergeSearchResults on its own is under way.
NotMerged == <<[title |-> "none", url |-> "none", score |-> 0]>>
MergeIdle ==
    /\ results1 = <<>>
    /\ results2 = <<>>
    /\ merged = NotMerged

\* No call of processRawContent on its own is under way; no text that
\* processRawContent returns holds a line feed.
NotSanitized == <<"\n">>
SanitizeIdle ==
    /\ rawContent = Undefined
    /\ sanitized = NotSanitized

\* No call of searchTavily on its own is under way.
NotCalled == [results |-> <<>>, status |-> 0, sources |-> <<>>]
TavilyIdle ==
    /\ tavilyData = <<>>
    /\ tavilyReturn = NotCalled

\* The decoder on its own is fed nothing.
NoWire == [chars |-> <<>>, objects |-> <<>>, texts |-> <<>>, ends |-> <<>>]
NoDecode ==
    [buffer |-> <<>>, out |-> <<>>, log |-> {}, spans |-> <<>>,
     closed |-> FALSE, inLoop |-> FALSE, processedSomething |-> FALSE,
     entered |-> 0, iterations |-> 0]
DecodeIdle ==
    /\ wire = NoWire
    /\ fed = 0
    /\ dec = NoDecode

\* The page as mounted: the initial values of its useState calls, and no
\* handleSubmit running.  Of a turn, pos is how much of the body was read,
\* and torn whether a read has ended inside a line.
NoTurn ==
    [pc |-> "idle", submittedQuery |-> <<>>, sentHistory |-> <<>>,
     finalAnswer |-> <<>>, finalSources |-> <<>>,
     finalReformulatedQuery |-> Null, buffer |-> <<>>, pos |-> 0, log |-> {},
     torn |-> FALSE, cleared |-> FALSE]
NoResponse ==
    [ok |-> FALSE, status |-> 0, hasBody |-> FALSE, errorData |-> Undefined,
     bytes |-> <<>>, types |-> <<>>, events |-> <<>>]
Mounted ==
    [query |-> <<>>, currentQuery |-> <<>>, error |-> Null, sources |-> <<>>,
     answer |-> <<>>, currentReformulatedQuery |-> Null, loading |-> FALSE,
     loadingState |-> Null, conversationHistory |-> <<>>]
ClientIdle ==
    /\ ui = Mounted
    /\ turn = NoTurn
    /\ response = NoResponse

ServerInit ==
    /\ env \in [google : BOOLEAN, tavily : BOOLEAN]
    /\ body = NoRequest
    /\ reformulation = NoCall
    /\ pc = "start"
    /\ query = <<>>
    /\ conversationHistory = Undefined
    /\ reformulatedQuery = Null
    /\ searches = NoSearches
    /\ found = NoFound
    /\ settled = <<>>
    /\ searchResults = <<>>
    /\ status = 0
    /\ respBody = NoError
    /\ events = <<>>
    /\ closed = FALSE
    /\ generation = NoGeneration
    /\ upstream = NoBody
    /\ pos = 0
    /\ buffer = <<>>
    /\ calls = <<>>
    /\ log = {}

\* No request is being handled: both keys are configured.
ServerIdle == ServerInit /\ env.google /\ env.tavily

Init ==
    /\ ServerInit
    /\ MergeIdle
    /\ SanitizeIdle
    /\ TavilyIdle
    /\ DecodeIdle
    /\ ClientIdle

\* Respond leaving the details out.
Respond_NoDetails(st, error, details) ==
    /\ status' = st
    /\ respBody' = [error |-> error, details |-> ""]
    /\ pc' = "done"

\* return NextResponse.json({error, details}, {status})
Respond(st, error, details) ==
    /\ status' = st
    /\ respBody' = [error |-> error, details |-> details]
    /\ pc' = "done"

\* The search calls of step 3 up to their fetch: which calls are made with
\* which query, which of them are rejected before any fetch, and the fetches
\* issued.
SearchArgs(q, rq) ==
    IF Truthy(rq) THEN [original |-> q, reformulated |-> rq.v]
                  ELSE [original |-> q, reformulated |-> <<>>]
SearchRoles(rq) == IF Truthy(rq) THEN Roles ELSE {"original"}

SearchStates(q, rq) ==
    [r \in Roles |->
        IF r \notin SearchRoles(rq) THEN "none"
        ELSE IF SearchPrecheck(env.tavily, SearchArgs(q, rq)[r]) = "ok"
            THEN "pending"
        ELSE "rejected"]

\* SearchCalls issuing the search of the original query a second time.
SearchCalls_Again(q, rq) ==
    LET st   == SearchStates(q, rq)
        call(r) == IF st[r] = "pending"
                      THEN <<[kind |-> "search", arg |-> SearchArgs(q, rq)[r]]>>
                      ELSE <<>>
    IN  call("original") \o call("reformulated") \o call("original")

SearchCalls(q, rq) ==
    LET st   == SearchStates(q, rq)
        call(r) == IF st[r] = "pending"
                      THEN <<[kind |-> "search", arg |-> SearchArgs(q, rq)[r]]>>
                      ELSE <<>>
    IN  call("original") \o call("reformulated")

\* Step 3 up to the await: the handler goes on to wait for the searches, or
\* answers 500 when a call was rejected at once.
StartSearch(q, rq) ==
    LET st == SearchStates(q, rq) IN
    /\ reformulatedQuery' = rq
    /\ searches' = st
    /\ calls' = calls \o SearchCalls(q, rq)
    /\ IF \E r \in Roles : st[r] = "rejected"
        THEN Respond(500, "Failed to fetch search results",
                     SearchPrecheck(env.tavily,
                        SearchArgs(q, rq)[IF st.original = "rejected"
                                             THEN "original"
                                             ELSE "reformulated"]))
        ELSE /\ pc' = "search"
             /\ UNCHANGED <<status, respBody>>

\* Steps 1 and 2 up to the first await: parse and validate the body, check
\* the API key, then call the reformulator, or go straight to the search.
Receive(req) ==
    /\ pc = "start"
    /\ body' = req
    /\ LET v == searchRequestSchema(req) IN
       IF ~req.json THEN
            /\ Respond(400, "Invalid JSON in request body", "SyntaxError")
            /\ UNCHANGED <<query, conversationHistory, reformulatedQuery,
                           searches, calls, reformulation>>
       ELSE IF ~v.success THEN
            /\ Respond(400,
                  "Invalid request: query is required and cannot be empty",
                  "validationResult.error.format()")
            /\ UNCHANGED <<query, conversationHistory, reformulatedQuery,
                           searches, calls, reformulation>>
       ELSE
            /\ query' = v.query
            /\ conversationHistory' = v.conversationHistory
            /\ IF ~env.google THEN
                    /\ Respond(500,
                          "GOOGLE_GENERATIVE_AI_API_KEY is not configured",
                          "Please add it to your .env.local file.")
                    /\ UNCHANGED <<reformulatedQuery, searches, calls,
                                   reformulation>>
               ELSE IF HasHistory(v.conversationHistory) THEN
                    /\ pc' = "reformulate"
                    /\ reformulation' = Pending
                    /\ calls' = Append(calls, [kind |-> "reformulate",
                                                arg |-> v.query])
                    /\ UNCHANGED <<reformulatedQuery, searches, status,
                                   respBody>>
               ELSE /\ StartSearch(v.query, Null)
                    /\ UNCHANGED reformulation
    /\ UNCHANGED <<mergeVars, sanitizeVars, tavilyVars, decodeVars, clientVars, settled, env, found, searchResults, events, closed, generation, upstream, pos,
                   buffer, log>>

\* The reformulation call comes back: its result is kept, or its failure is
\* logged; either way the search starts.
ReformulateReturn(outcome) ==
    /\ pc = "reformulate"
    /\ reformulation' = outcome
    /\ LET r == reformulateQuery(query, outcome) IN
       /\ StartSearch(query, r.value)
       /\ log' = IF r.threw THEN log \cup {"Failed to reformulate query"}
                            ELSE log
    /\ UNCHANGED <<mergeVars, sanitizeVars, tavilyVars, decodeVars, clientVars, settled, env, body, query, conversationHistory, found,
                   searchResults, events, closed, generation, upstream, pos, buffer>>

\* Steps 3 (after the await) to 5 (up to the generation fetch): merge,
\* add fullContent, answer 404 on no results, else open the event stream,
\* enqueue the first events and call the generation endpoint.
\* FirstEvents with the sources ahead of the reformulated query.
FirstEvents_SourcesFirst(rq, results) ==
    <<SourcesEvent(results)>>
    \o (IF Truthy(rq) THEN <<ReformulatedQueryEvent(rq.v)>> ELSE <<>>)

FirstEvents(rq, results) ==
    (IF Truthy(rq) THEN <<ReformulatedQueryEvent(rq.v)>> ELSE <<>>)
    \o <<SourcesEvent(results)>>

\* NoResults off by one.
NoResults_OffByOne(results) == Len(results) <= 1

\* !searchResults || searchResults.length === 0
NoResults(results) == Len(results) = 0

\* AfterSearch calling the generation endpoint before the test for no results.
AfterSearch_GenerateFirst(results) ==
    LET processed == ProcessResults(results) IN
    /\ searchResults' = processed
    /\ log' = log \cup ProcessLog(results)
    /\ calls' = Append(calls,
          [kind |-> "generate",
           arg  |-> buildContextPrompt(query, processed,
                                       conversationHistory)])
    /\ IF NoResults(processed) THEN
            /\ Respond(404, "No search results found",
                       "Tavily returned an empty result set")
            /\ UNCHANGED events
       ELSE
            /\ status' = 200
            /\ respBody' = NoError
            /\ events' = FirstEvents(reformulatedQuery, processed)
            /\ pc' = "generate"

AfterSearch(results) ==
    LET processed == ProcessResults(results) IN
    /\ searchResults' = processed
    /\ log' = log \cup ProcessLog(results)
    /\ IF NoResults(processed) THEN
            /\ Respond(404, "No search results found",
                       "Tavily returned an empty result set")
            /\ UNCHANGED <<events, calls>>
       ELSE
            /\ status' = 200
            /\ respBody' = NoError
            /\ events' = FirstEvents(reformulatedQuery, processed)
            /\ calls' = Append(calls,
                  [kind |-> "generate",
                   arg  |-> buildContextPrompt(query, processed,
                                               conversationHistory)])
            /\ pc' = "generate"

\* searchTavilyThrows without the check for the results array.
searchTavilyThrows_NoFormatCheck(outcome) ==
    \/ outcome.kind = "network"
    \/ outcome.kind = "status"

\* searchTavily after its fetch: it throws when the fetch failed, on a
\* status that is not ok, and on a body without a results array.
searchTavilyThrows(outcome) ==
    \/ outcome.kind = "network"
    \/ outcome.kind = "status"
    \/ outcome.kind = "format"

\* MergeFound taking the results in the order the calls came back.
MergeFound_AsSettled(fd, last) ==
    IF last = "reformulated"
        THEN mergeSearchResults(fd.original, fd.reformulated)
        ELSE mergeSearchResults(fd.reformulated, fd.original)

\* mergeSearchResults(originalResults, reformulatedResults): Promise.all
\* resolves with the results in the order of its argument, whichever call
\* (last) came back last.
MergeFound(fd, last) == mergeSearchResults(fd.original, fd.reformulated)

\* A search call comes back.  Promise.all rejects on the first failure and
\* resolves when every call has succeeded; a call that comes back after the
\* handler has answered changes nothing the handler does.
SearchReturn(role, outcome) ==
    /\ searches[role] = "pending"
    /\ LET st == [searches EXCEPT ![role] = outcome.kind]
           fd == [found EXCEPT ![role] = outcome.results]
       IN
       /\ searches' = st
       /\ settled' = Append(settled, role)
       /\ IF pc # "search" THEN
               UNCHANGED <<pc, found, searchResults, status, respBody, events,
                           calls, log>>
          ELSE IF searchTavilyThrows(outcome) THEN
               /\ Respond(500, "Failed to fetch search results", outcome.kind)
               /\ UNCHANGED <<found, searchResults, events, calls, log>>
          ELSE IF \E r \in Roles : st[r] = "pending" THEN
               /\ found' = fd
               /\ UNCHANGED <<pc, searchResults, status, respBody, events,
                              calls, log>>
          ELSE
               /\ found' = fd
               /\ AfterSearch(IF Truthy(reformulatedQuery)
                                THEN MergeFound(fd, role)
                                ELSE fd.original)
    /\ UNCHANGED <<mergeVars, sanitizeVars, tavilyVars, decodeVars, clientVars, env, body, reformulation, query, conversationHistory,
                   reformulatedQuery, closed, generation, upstream, pos, buffer>>

\* EndStream whose catch enqueues nothing.
EndStream_SilentCatch(evs, threw, message) ==
    IF threw THEN evs ELSE Append(evs, DoneEvent)

\* The end of the stream's start(): the try ends with the done event, the
\* catch enqueues the error event, and finally closes.
EndStream(evs, threw, message) ==
    IF threw THEN Append(evs, ErrorEvent(message)) ELSE Append(evs, DoneEvent)

\* The generation fetch comes back: a failure to start ends the stream with
\* an error event, a body is read from.
GenerateReturn(outcome) ==
    /\ pc = "generate"
    /\ generation' = [kind |-> outcome.kind, status |-> outcome.status,
                      errorText |-> outcome.errorText]
    /\ IF outcome.kind = "ok" THEN
            /\ upstream' = outcome.body
            /\ pc' = "read"
            /\ UNCHANGED <<events, closed, log>>
       ELSE
            /\ events' = EndStream(events, TRUE,
                                    GenerateFailureMessage(outcome))
            /\ closed' = TRUE
            /\ pc' = "done"
            /\ log' = log \cup {"Streaming error details"}
                          \cup (IF outcome.kind = "status"
                                  THEN {"Gemini API error"} ELSE {})
            /\ UNCHANGED upstream
    /\ UNCHANGED <<mergeVars, sanitizeVars, tavilyVars, decodeVars, clientVars, settled, env, body, reformulation, query, conversationHistory,
                   reformulatedQuery, searches, found, searchResults, status, respBody, pos,
                   buffer, calls>>

\* reader.read() yields the next n characters: they are appended to the
\* buffer and the buffer is decoded.
ReadChunk(n) ==
    /\ pc = "read"
    /\ n >= 1
    /\ pos + n <= Len(upstream.chars)
    /\ \E d \in {DecodeChunk(buffer,
                            SubSeq(upstream.chars, pos + 1, pos + n))} :
       /\ buffer' = d.buffer
       /\ events' = events \o d.out
       /\ log' = log \cup d.log
    /\ pos' = pos + n
    /\ UNCHANGED <<mergeVars, sanitizeVars, tavilyVars, decodeVars, clientVars, settled, env, body, reformulation, pc, query, conversationHistory,
                   reformulatedQuery, searches, found, searchResults, status, respBody, closed,
                   generation, upstream, calls>>

\* reader.read() reports the end of the body.
ReadDone ==
    /\ pc = "read"
    /\ pos = Len(upstream.chars)
    /\ events' = EndStream(events, FALSE, <<>>)
    /\ closed' = TRUE
    /\ pc' = "done"
    /\ UNCHANGED <<mergeVars, sanitizeVars, tavilyVars, decodeVars, clientVars, settled, env, body, reformulation, query, conversationHistory,
                   reformulatedQuery, searches, found, searchResults, status, respBody, generation, upstream,
                   pos, buffer, calls, log>>

\* reader.read() rejects: the upstream connection broke.
ReadFail ==
    /\ pc = "read"
    /\ events' = EndStream(events, TRUE, <<"read failed">>)
    /\ closed' = TRUE
    /\ pc' = "done"
    /\ log' = log \cup {"Streaming error details"}
    /\ UNCHANGED <<mergeVars, sanitizeVars, tavilyVars, decodeVars, clientVars, settled, env, body, reformulation, query, conversationHistory,
                   reformulatedQuery, searches, found, searchResults, status, respBody, generation, upstream,
                   pos, buffer, calls>>

\* reader.read() yields all that is left of the body at once.
ReadRest == ReadChunk(Len(upstream.chars) - pos)

\* The upstream delivers the body in chunks of at most MaxChunk characters,
\* or all that is left of it at once.
MaxChunk == 2

Next ==
    \/ \E req \in Requests : Receive(req)
    \/ \E outcome \in ReformulateOutcomes : ReformulateReturn(outcome)
    \/ \E role \in Roles, outcome \in SearchOutcomes :
          SearchReturn(role, outcome)
    \/ \E outcome \in GenerateOutcomes : GenerateReturn(outcome)
    \/ \E n \in 1..MaxChunk : ReadChunk(n)
    \/ ReadRest
    \/ ReadDone
    \/ ReadFail

Spec == Init /\ [][Next]_vars

\* A step of the read loop: reader.read() settles.
ReadStep ==
    \/ ReadDone
    \/ ReadFail
    \/ ReadRest
    \/ \E n \in 1..MaxChunk : ReadChunk(n)

\* Once the stream is open its start() keeps running: the awaited generation
\* fetch settles, and each awaited reader.read() settles.
FairSpec ==
    /\ Spec
    /\ WF_vars(\E outcome \in GenerateOutcomes : GenerateReturn(outcome))
    /\ WF_vars(ReadStep)

----------------------------------------------------------------------------
(* mergeSearchResults, called on its own *)

MaxResults == 2
MaxScore == 2
Urls == {"u1", "u2"}

\* The result lists one search can come back with; title tells which search
\* an entry is from.
ResultLists(title) ==
    UNION { [1..n -> [title : {title}, url : Urls, score : 1..MaxScore]] :
              n \in 0..MaxResults }

MergeInit ==
    /\ ServerIdle
    /\ SanitizeIdle
    /\ TavilyIdle
    /\ DecodeIdle
    /\ ClientIdle
    /\ results1 \in ResultLists("A")
    /\ results2 \in ResultLists("B")
    /\ merged = NotMerged

\* searchResults = mergeSearchResults(originalResults, reformulatedResults)
Merge ==
    /\ merged = NotMerged
    /\ merged' = mergeSearchResults(results1, results2)
    /\ UNCHANGED <<serverVars, sanitizeVars, tavilyVars, decodeVars, clientVars, results1, results2>>

MergeNext == Merge

MergeSpec == MergeInit /\ [][MergeNext]_vars

----------------------------------------------------------------------------
(* processRawContent, called on its own *)

MaxRaw == 3

\* Short raw contents: every string of at most MaxRaw characters over a
\* letter, a blank, a character that is not kept and a full stop; and some
\* with a tag and entities.
RawAlphabet == {"a", " ", "#", "."}
ShortRaw ==
    UNION { [1..n -> RawAlphabet] : n \in 0..MaxRaw }
    \cup { <<"<", "b", ">", "a", "&", "a", "m", "p", ";", "l", "t", ";">>,
           <<"a", "&", "n", "b", "s", "p", ";", "\n", "\n", "b">> }

\* Long raw contents, about maxLength characters long: letters, with one
\* sentence mark and one blank at chosen places (0: none).
LongRaw ==
    { [i \in 1..n |-> IF i = p THEN m ELSE IF i = q THEN " " ELSE "a"] :
        n \in {maxLength - 1, maxLength, maxLength + 1, maxLength + 7},
        p \in {0, (maxLength * 8) \div 10 + 1, (maxLength * 8) \div 10 + 2,
               maxLength, maxLength + 1},
        m \in {".", "?", "!"},
        q \in {0, 2, maxLength - 1, maxLength, maxLength + 1} }

RawContents ==
    {Undefined, JNum(7)} \cup {JStr(x) : x \in ShortRaw \cup LongRaw}

SanitizeInit ==
    /\ ServerIdle
    /\ MergeIdle
    /\ TavilyIdle
    /\ DecodeIdle
    /\ ClientIdle
    /\ rawContent \in RawContents
    /\ sanitized = NotSanitized

\* const fullContent = processRawContent(result.raw_content)
Sanitize ==
    /\ sanitized = NotSanitized
    /\ sanitized' = processRawContent(rawContent)
    /\ UNCHANGED <<serverVars, mergeVars, tavilyVars, decodeVars, clientVars, rawContent>>

SanitizeNext == Sanitize

SanitizeSpec == SanitizeInit /\ [][SanitizeNext]_vars

----------------------------------------------------------------------------
(* searchTavily, called on its own by a turn without history *)

\* max_results of the request searchTavily sends.
max_results == 7

\* How many results more than asked for the provider's answer may hold.
MaxExtra == 1

\* A result of the provider's answer, the i-th of it.
TavilyResult(i, raw) ==
    [title |-> "T", url |-> i, content |-> <<"s">>, score |-> 1,
     raw_content |-> raw, published_date |-> "d"]

\* The results arrays the provider answers with: of any length up to
\* max_results + MaxExtra, each result with or without a raw content.
TavilyAnswers ==
    UNION { { [i \in 1..n |-> TavilyResult(i, raws[i])] :
                raws \in [1..n -> {Undefined, JStr(<<"<", "b", ">", "t">>)}] } :
            n \in 0..(max_results + MaxExtra) }

\* searchTavilyResults returning at most max_results results.
searchTavilyResults_Capped(data) ==
    [i \in 1..(IF Len(data) < max_results THEN Len(data) ELSE max_results) |->
        [title |-> data[i].title, url |-> data[i].url,
         content |-> data[i].content, score |-> data[i].score,
         raw_content |-> data[i].raw_content]]

\* data.results.map(...): what searchTavily returns for the results array
\* of the provider's answer.
searchTavilyResults(data) ==
    [i \in 1..Len(data) |->
        [title |-> data[i].title, url |-> data[i].url,
         content |-> data[i].content, score |-> data[i].score,
         raw_content |-> data[i].raw_content]]

\* Steps 3 to 5 of a turn without history, up to the first events: the
\* single search, the per-result step, and the 404 or the sources event.
SingleSearchTurn(data) ==
    LET results   == searchTavilyResults(data)
        processed == ProcessResults(results)
    IN  [results |-> results,
         status  |-> IF NoResults(processed) THEN 404 ELSE 200,
         sources |-> IF NoResults(processed) THEN <<>>
                     ELSE FirstEvents(Null, processed)[1].sources]

TavilyInit ==
    /\ ServerIdle
    /\ MergeIdle
    /\ SanitizeIdle
    /\ DecodeIdle
    /\ ClientIdle
    /\ tavilyData \in TavilyAnswers
    /\ tavilyReturn = NotCalled

\* searchResults = await searchTavily(query), and what follows it.
TavilyReturns ==
    /\ tavilyReturn = NotCalled
    /\ tavilyReturn' = SingleSearchTurn(tavilyData)
    /\ UNCHANGED <<serverVars, mergeVars, sanitizeVars, decodeVars, clientVars,
                   tavilyData>>

TavilyNext == TavilyReturns

TavilySpec == TavilyInit /\ [][TavilyNext]_vars

----------------------------------------------------------------------------
(* The decoder, fed an upstream body on its own *)

\* Text fragments whose JSON string holds what the scan looks for: raw is
\* the string as written between the quotes, text what it stands for.
TrickyTexts ==
    { [raw |-> <<"}">>, text |-> <<"}">>],
      [raw |-> <<"{", "{">>, text |-> <<"{", "{">>],
      [raw |-> <<"]", ",", "[">>, text |-> <<"]", ",", "[">>],
      [raw |-> <<BS, Q, "}">>, text |-> <<Q, "}">>],
      [raw |-> <<"}", BS, BS>>, text |-> <<"}", BS>>],
      [raw |-> <<BS, BS, BS, Q, "{">>, text |-> <<BS, Q, "{">>] }

\* An upstream object with the text it carries: a text fragment, and an
\* object without candidates.
TextObject(t) == [chars |-> GeminiText(t.raw), text |-> t.text]
NoTextObject ==
    [chars |-> KeyOpen(S_candidates) \o <<"[", "]", "}">>, text |-> <<>>]
PlainText == [raw |-> <<"a">>, text |-> <<"a">>]
EmptyText == [raw |-> <<>>, text |-> <<>>]

\* A body of two objects with what is around them: ends[k] is where the
\* k-th object ends in the body.
WireOf(prefix, o1, sep, o2, suffix) ==
    [chars   |-> prefix \o o1.chars \o sep \o o2.chars \o suffix,
     objects |-> <<o1.chars, o2.chars>>,
     texts   |-> <<o1.text, o2.text>>,
     ends    |-> <<Len(prefix) + Len(o1.chars),
                   Len(prefix) + Len(o1.chars) + Len(sep) + Len(o2.chars)>>]

\* The two ways the upstream frames its objects: [{...},\n{...}] and
\* {...}\n{...}\n.
ArrayWire(t1, t2) ==
    WireOf(<<"[">>, TextObject(t1), <<",", "\n">>, TextObject(t2), <<"]">>)
LinesWire(t1, t2) ==
    WireOf(<<>>, TextObject(t1), <<"\n">>, TextObject(t2), <<"\n">>)

\* Bodies with an object whose text is empty or absent, and a body the
\* upstream closes in the middle of its third object.
QuietWires ==
    { WireOf(<<"[">>, TextObject(EmptyText), <<",", "\n">>,
             TextObject(PlainText), <<"]">>),
      WireOf(<<>>, TextObject(PlainText), <<"\n">>, NoTextObject, <<"\n">>),
      WireOf(<<>>, NoTextObject, <<"\n">>, TextObject(PlainText),
             <<"\n", "{", Q>>) }

\* The bodies fed: each tricky fragment first, followed by another.
Wires ==
    UNION { { ArrayWire(t1, t2) :
                t2 \in {t \in TrickyTexts : Len(t.raw) = Len(t1.raw)} } :
            t1 \in TrickyTexts }
    \cup { LinesWire(t1, t2) : t1 \in TrickyTexts,
                               t2 \in {t \in TrickyTexts : Len(t.raw) = 3} }
    \cup QuietWires

DecodeInit ==
    /\ ServerIdle
    /\ MergeIdle
    /\ SanitizeIdle
    /\ TavilyIdle
    /\ ClientIdle
    /\ wire \in Wires
    /\ fed = 0
    /\ dec = NoDecode

\* reader.read() yields the next n characters of the body: one pass of the
\* outer loop.
Feed(n) ==
    /\ ~dec.closed
    /\ n >= 1
    /\ fed + n <= Len(wire.chars)
    /\ \E d \in {DecodeChunk(dec.buffer,
                            SubSeq(wire.chars, fed + 1, fed + n))} :
          dec' = [dec EXCEPT !.buffer = d.buffer, !.out = @ \o d.out,
                             !.log = @ \cup d.log, !.spans = @ \o d.spans]
    /\ fed' = fed + n
    /\ UNCHANGED <<serverVars, mergeVars, sanitizeVars, tavilyVars, clientVars,
                   wire>>

\* reader.read() yields all that is left of the body at once.
FeedRest == Feed(Len(wire.chars) - fed)

\* Close whose loop exit parses what is left in the buffer.
Close_FlushBuffer ==
    /\ ~dec.closed
    /\ fed = Len(wire.chars)
    /\ dec' = [dec EXCEPT
                 !.out = EndStream(@, TrimStart(dec.buffer) # <<>>,
                                   <<"Unexpected end of JSON input">>),
                 !.closed = TRUE]
    /\ UNCHANGED <<serverVars, mergeVars, sanitizeVars, tavilyVars, clientVars,
                   wire, fed>>

\* reader.read() reports the end of the body: the loop is left, whatever
\* the buffer holds, and the done event is enqueued.
Close ==
    /\ ~dec.closed
    /\ fed = Len(wire.chars)
    /\ dec' = [dec EXCEPT !.out = EndStream(@, FALSE, <<>>),
                          !.closed = TRUE]
    /\ UNCHANGED <<serverVars, mergeVars, sanitizeVars, tavilyVars, clientVars,
                   wire, fed>>

DecodeNext ==
    \/ \E n \in 1..MaxChunk : Feed(n)
    \/ FeedRest
    \/ Close

DecodeSpec == DecodeInit /\ [][DecodeNext]_vars

----------------------------------------------------------------------------
(* The inner loop of the decoder, iteration by iteration, on any body *)

MaxGarbage == 3

\* The characters the loop tells apart: the braces, the framing tokens, the
\* quote, the backslash, whitespace, and any other character.
GarbageAlphabet == {"{", "}", "[", ",", Q, BS, " ", "x"}

\* Bodies of up to MaxGarbage such characters.
GarbageWires ==
    UNION { { [NoWire EXCEPT !.chars = cs] : cs \in [1..n -> GarbageAlphabet] } :
            n \in 1..MaxGarbage }

LoopInit ==
    /\ ServerIdle
    /\ MergeIdle
    /\ SanitizeIdle
    /\ TavilyIdle
    /\ ClientIdle
    /\ wire \in GarbageWires
    /\ fed = 0
    /\ dec = NoDecode

\* reader.read() yields the next n characters: they are appended to the
\* buffer and the inner loop is entered with processedSomething = true.
\* entered is the length of the buffer the loop is entered with, iterations
\* the number of iterations since.
Arrive(n) ==
    /\ ~dec.inLoop
    /\ n >= 1
    /\ fed + n <= Len(wire.chars)
    /\ dec' = [dec EXCEPT
                 !.buffer = @ \o SubSeq(wire.chars, fed + 1, fed + n),
                 !.inLoop = TRUE, !.processedSomething = TRUE,
                 !.entered = Len(dec.buffer) + n, !.iterations = 0]
    /\ fed' = fed + n
    /\ UNCHANGED <<serverVars, mergeVars, sanitizeVars, tavilyVars, clientVars,
                   wire>>

\* One iteration of the inner loop: its condition holds.
Iterate ==
    /\ dec.inLoop
    /\ dec.processedSomething /\ Len(dec.buffer) > 0
    /\ \E it \in {DecodeIteration(dec.buffer)} :
          dec' = [dec EXCEPT !.buffer = it.buffer, !.out = @ \o it.out,
                             !.log = @ \cup it.log,
                             !.spans = @ \o it.spans,
                             !.processedSomething = it.processedSomething,
                             !.inLoop = ~it.left,
                             !.iterations = @ + 1]
    /\ UNCHANGED <<serverVars, mergeVars, sanitizeVars, tavilyVars, clientVars,
                   wire, fed>>

\* The condition of the inner loop fails: the loop is left.
LeaveLoop ==
    /\ dec.inLoop
    /\ ~(dec.processedSomething /\ Len(dec.buffer) > 0)
    /\ dec' = [dec EXCEPT !.inLoop = FALSE]
    /\ UNCHANGED <<serverVars, mergeVars, sanitizeVars, tavilyVars, clientVars,
                   wire, fed>>

\* reader.read() yields all that is left of the body at once.
ArriveRest == Arrive(Len(wire.chars) - fed)

LoopNext ==
    \/ \E n \in 1..MaxChunk : Arrive(n)
    \/ ArriveRest
    \/ Iterate
    \/ LeaveLoop

LoopSpec == LoopInit /\ [][LoopNext]_vars

----------------------------------------------------------------------------
(* The event stream on the wire *)

\* In the frames of the event stream a word of the payload (a member name, a
\* type, a message) is kept as one symbol; the JSON syntax, the line feeds
\* and the "data: " prefix are kept character by character.
Member(k, x) == [k |-> <<k>>, val |-> x]
Word(w) == JStr(<<w>>)

RECURSIVE EscapeFrom(_, _)
EscapeFrom(s, i) ==
    IF i > Len(s) THEN <<>>
    ELSE (CASE s[i] = Q -> <<BS, Q>>
            [] s[i] = BS -> <<BS, BS>>
            [] s[i] = "\n" -> <<BS, "n">>
            [] OTHER -> <<s[i]>>) \o EscapeFrom(s, i + 1)

RECURSIVE JSONstringify(_)
RECURSIVE JoinValues(_, _)
RECURSIVE JoinMembers(_, _)

\* JSON.stringify on strings, arrays and objects; a member whose value is
\* undefined is left out.
JSONstringify(x) ==
    CASE x.t = "string" -> <<Q>> \o EscapeFrom(x.v, 1) \o <<Q>>
      [] x.t = "array"  -> <<"[">> \o JoinValues(x.v, 1) \o <<"]">>
      [] x.t = "object" ->
            <<"{">>
            \o JoinMembers(SelectSeq(x.v, LAMBDA m : m.val.t # "undefined"), 1)
            \o <<"}">>
      [] OTHER -> <<"null">>

JoinValues(xs, i) ==
    IF i > Len(xs) THEN <<>>
    ELSE (IF i > 1 THEN <<",">> ELSE <<>>) \o JSONstringify(xs[i])
         \o JoinValues(xs, i + 1)

JoinMembers(ms, i) ==
    IF i > Len(ms) THEN <<>>
    ELSE (IF i > 1 THEN <<",">> ELSE <<>>)
         \o <<Q>> \o EscapeFrom(ms[i].k, 1) \o <<Q, ":">>
         \o JSONstringify(ms[i].val) \o JoinMembers(ms, i + 1)

DataPrefix == <<"d", "a", "t", "a", ":", " ">>

\* encoder.encode(`data: ${JSON.stringify(event)}\n\n`)
SseFrame(event) == DataPrefix \o JSONstringify(event) \o <<"\n", "\n">>

SseReformulatedQuery(q) ==
    JObj(<<Member("type", Word("reformulated_query")), Member("query", q)>>)
SseSources(rs) ==
    JObj(<<Member("type", Word("sources")), Member("sources", JArr(rs))>>)
SseText(c) ==
    JObj(<<Member("type", Word("text")), Member("content", c)>>)
SseDone == JObj(<<Member("type", Word("done"))>>)
SseError(d) ==
    JObj(<<Member("type", Word("error")),
           Member("error", Word("Error while streaming AI response")),
           Member("details", d)>>)

RECURSIVE SseFrames(_, _)
SseFrames(evs, i) ==
    IF i > Len(evs) THEN <<>> ELSE SseFrame(evs[i]) \o SseFrames(evs, i + 1)

\* A streamed response: the frames of its events, and for reference the
\* events in it and their types.
StreamOf(evs) ==
    [ok |-> TRUE, status |-> 200, hasBody |-> TRUE, errorData |-> Undefined,
     bytes |-> SseFrames(evs, 1),
     types |-> [i \in 1..Len(evs) |-> Get(evs[i], <<"type">>).v[1]],
     events |-> evs]

\* NextResponse.json({error, details}, {status})
ErrorResponse(st, error, details) ==
    [ok |-> FALSE, status |-> st, hasBody |-> TRUE,
     errorData |-> JObj(<<Member("error", Word(error)),
                          Member("details", Word(details))>>),
     bytes |-> <<>>, types |-> <<>>, events |-> <<>>]

SourceA ==
    JObj(<<Member("title", Word("A")), Member("url", Word("u1"))>>)
SourceB ==
    JObj(<<Member("title", Word("B")), Member("url", Word("u2"))>>)

\* The responses /api/search answers with: the error responses, streams
\* that end with done or with error, and a stream cut off before its
\* terminal event.
Responses ==
    { ErrorResponse(404, "No search results found for query",
                    "Tavily returned an empty result set"),
      ErrorResponse(500, "Failed to fetch search results for query",
                    "Tavily API error"),
      StreamOf(<<SseSources(<<SourceA, SourceB>>), SseText(JStr(<<"a">>)),
                 SseText(JStr(<<"b", Q>>)), SseDone>>),
      StreamOf(<<SseReformulatedQuery(Word("r")), SseSources(<<SourceA>>),
                 SseText(JStr(<<"\n", "d">>)), SseText(JStr(<<"}">>)),
                 SseDone>>),
      StreamOf(<<SseSources(<<SourceA>>), SseText(JStr(<<"a">>)),
                 SseError(Word("read failed"))>>),
      StreamOf(<<SseSources(<<SourceA>>),
                 SseError(Word("No response body from Gemini"))>>),
      StreamOf(<<SseSources(<<SourceA>>), SseText(JStr(<<"a">>))>>) }

----------------------------------------------------------------------------
(* The page: handleSubmit *)

\* buffer.split("\n"): the pieces between the line feeds, the one before
\* the first and the one after the last included.
SplitLines(s) ==
    LET feeds == {i \in 1..Len(s) : s[i] = "\n"}
        at(k) == IF k = 0 THEN 0
                 ELSE IF k > Cardinality(feeds) THEN Len(s) + 1
                 ELSE CHOOSE p \in feeds :
                        Cardinality({j \in feeds : j <= p}) = k
    IN  [k \in 1..(Cardinality(feeds) + 1) |->
            SubSeq(s, at(k - 1) + 1, at(k) - 1)]

\* value as the right operand of +=
ToText(x) == IF x.t = "string" THEN x.v ELSE <<x.t>>

\* The body of the for loop for one line: c is the pair of the locals (t)
\* and the React state (u); brk tells that the loop is left.  An event of
\* type error throws inside the try, and the catch of that try logs it.
HandleLine(line, c) ==
    IF ~IsPrefixAt(line, 1, DataPrefix) THEN [c |-> c, brk |-> FALSE]
    ELSE
        LET r      == JSONparse(SubSeq(line, Len(DataPrefix) + 1, Len(line)))
            parsed == r.val
            type   == Get(parsed, <<"type">>)
            is(w)  == type.t = "string" /\ type.v = <<w>>
            logged == [c EXCEPT !.t.log = @ \cup {"Failed to parse SSE message"}]
        IN  IF ~r.ok THEN [c |-> logged, brk |-> FALSE]
            ELSE IF is("reformulated_query") THEN
                [c |-> [c EXCEPT
                          !.t.finalReformulatedQuery = Get(parsed, <<"query">>),
                          !.u.currentReformulatedQuery = Get(parsed, <<"query">>)],
                 brk |-> FALSE]
            ELSE IF is("sources") THEN
                [c |-> [c EXCEPT
                          !.t.finalSources = Get(parsed, <<"sources">>).v,
                          !.u.sources = Get(parsed, <<"sources">>).v,
                          !.u.loadingState = Word("generating")],
                 brk |-> FALSE]
            ELSE IF is("text") THEN
                [c |-> [c EXCEPT
                          !.t.finalAnswer = @ \o ToText(Get(parsed, <<"content">>)),
                          !.u.answer = @ \o ToText(Get(parsed, <<"content">>))],
                 brk |-> FALSE]
            ELSE IF is("done") THEN [c |-> c, brk |-> TRUE]
            ELSE IF is("error") THEN [c |-> logged, brk |-> FALSE]
            ELSE [c |-> c, brk |-> FALSE]

\* for (const line of lines) { ... }
RECURSIVE HandleLines(_, _, _)
HandleLines(lines, i, c) ==
    IF i > Len(lines) THEN c
    ELSE LET r == HandleLine(lines[i], c) IN
         IF r.brk THEN r.c ELSE HandleLines(lines, i + 1, r.c)

\* HandleChunk that keeps nothing of an unfinished line.
HandleChunk_DropPartial(c, chunk) ==
    LET lines == SplitLines(chunk)
        kept  == [c EXCEPT !.t.buffer = <<>>]
    IN  HandleLines(SubSeq(lines, 1, Len(lines) - 1), 1, kept)

\* One pass of the while loop on a chunk: the buffer is extended and split,
\* the last (unfinished) line is kept, the others are handled.
HandleChunk(c, chunk) ==
    LET lines == SplitLines(c.t.buffer \o chunk)
        kept  == [c EXCEPT !.t.buffer = lines[Len(lines)]]
    IN  HandleLines(SubSeq(lines, 1, Len(lines) - 1), 1, kept)

\* The entry handleSubmit appends.
Entry(t) ==
    [query |-> t.submittedQuery, answer |-> t.finalAnswer,
     sources |-> t.finalSources,
     reformulatedQuery |-> IF Truthy(t.finalReformulatedQuery)
                             THEN t.finalReformulatedQuery ELSE Undefined]

\* Caught that leaves loading as it is.
Caught_KeepsLoading(message) ==
    /\ ui' = [ui EXCEPT !.error = message, !.loadingState = Null]
    /\ turn' = [turn EXCEPT !.pc = "idle"]

\* The catch of handleSubmit.
Caught(message) ==
    /\ ui' = [ui EXCEPT !.error = message, !.loadingState = Null,
                        !.loading = FALSE]
    /\ turn' = [turn EXCEPT !.pc = "idle"]

MaxTurns == 2
UserQueries == { <<" ">>, <<"a", " ">> }

\* The form is submitted with q typed in; the input and the button are
\* disabled while loading.
Submit(q) ==
    /\ ~ui.loading
    /\ Len(ui.conversationHistory) < MaxTurns
    /\ IF Len(Trim(q)) = 0 THEN
            /\ ui' = [ui EXCEPT !.query = q,
                                !.error = Word("Please enter a search query")]
            /\ UNCHANGED turn
       ELSE
            /\ ui' = [ui EXCEPT !.query = <<>>, !.currentQuery = Trim(q),
                                !.error = Null, !.sources = <<>>,
                                !.answer = <<>>,
                                !.currentReformulatedQuery = Null,
                                !.loading = TRUE,
                                !.loadingState = Word("searching")]
            /\ turn' = [NoTurn EXCEPT !.pc = "fetch",
                                      !.submittedQuery = Trim(q),
                                      !.sentHistory = ui.conversationHistory]
    /\ UNCHANGED <<serverVars, mergeVars, sanitizeVars, tavilyVars, decodeVars,
                   response>>

\* fetch rejects.
FetchReject ==
    /\ turn.pc = "fetch"
    /\ Caught(Word("Failed to fetch"))
    /\ UNCHANGED <<serverVars, mergeVars, sanitizeVars, tavilyVars, decodeVars,
                   response>>

\* fetch resolves with a response.
FetchResponse(resp) ==
    /\ turn.pc = "fetch"
    /\ response' = resp
    /\ IF ~resp.ok THEN
            Caught(OrElse(Get(resp.errorData, <<"error">>),
                          Word("Failed to fetch search results")))
       ELSE IF ~resp.hasBody THEN
            Caught(Word("No response body received"))
       ELSE /\ turn' = [turn EXCEPT !.pc = "read"]
            /\ UNCHANGED ui
    /\ UNCHANGED <<serverVars, mergeVars, sanitizeVars, tavilyVars, decodeVars>>

\* reader.read() yields the next n symbols of the body.
ClientRead(n) ==
    /\ turn.pc = "read"
    /\ n >= 1
    /\ turn.pos + n <= Len(response.bytes)
    /\ \E c \in {HandleChunk([t |-> turn, u |-> ui],
                             SubSeq(response.bytes, turn.pos + 1,
                                    turn.pos + n))} :
          /\ turn' = [c.t EXCEPT !.pos = turn.pos + n,
                                 !.torn = @ \/ c.t.buffer # <<>>]
          /\ ui' = c.u
    /\ UNCHANGED <<serverVars, mergeVars, sanitizeVars, tavilyVars, decodeVars,
                   response>>

\* reader.read() yields all that is left of the body at once.
ClientReadRest == ClientRead(Len(response.bytes) - turn.pos)

\* ClientReadDone appending to the history its handleSubmit was created
\* with, not to the history of the page as it is.
ClientReadDone_StaleHistory ==
    /\ turn.pc = "read"
    /\ turn.pos = Len(response.bytes)
    /\ ui' = [ui EXCEPT
                !.conversationHistory = Append(turn.sentHistory, Entry(turn)),
                !.currentQuery = <<>>, !.answer = <<>>,
                !.sources = <<>>, !.currentReformulatedQuery = Null,
                !.loadingState = Null, !.loading = FALSE]
    /\ turn' = [turn EXCEPT !.pc = "idle"]
    /\ UNCHANGED <<serverVars, mergeVars, sanitizeVars, tavilyVars, decodeVars,
                   response>>

\* reader.read() reports the end of the body: the loop is left, the entry
\* is appended and the current turn is cleared.
ClientReadDone ==
    /\ turn.pc = "read"
    /\ turn.pos = Len(response.bytes)
    /\ ui' = [ui EXCEPT !.conversationHistory = Append(@, Entry(turn)),
                        !.currentQuery = <<>>, !.answer = <<>>,
                        !.sources = <<>>, !.currentReformulatedQuery = Null,
                        !.loadingState = Null, !.loading = FALSE]
    /\ turn' = [turn EXCEPT !.pc = "idle"]
    /\ UNCHANGED <<serverVars, mergeVars, sanitizeVars, tavilyVars, decodeVars,
                   response>>

\* reader.read() rejects: the connection broke.
ClientReadFail ==
    /\ turn.pc = "read"
    /\ Caught(Word("network error"))
    /\ UNCHANGED <<serverVars, mergeVars, sanitizeVars, tavilyVars, decodeVars,
                   response>>

\* The Clear conversation button, rendered while the history holds an
\* entry and never disabled, is clicked.  cleared tells whether the click
\* came while the handleSubmit of the turn was running.
Clear ==
    /\ Len(ui.conversationHistory) > 0
    /\ ui' = [ui EXCEPT !.conversationHistory = <<>>, !.sources = <<>>,
                        !.answer = <<>>, !.currentReformulatedQuery = Null,
                        !.currentQuery = <<>>, !.query = <<>>]
    /\ turn' = [turn EXCEPT !.cleared = (turn.pc # "idle")]
    /\ UNCHANGED <<serverVars, mergeVars, sanitizeVars, tavilyVars, decodeVars,
                   response>>

ClientInit ==
    /\ ServerIdle
    /\ MergeIdle
    /\ SanitizeIdle
    /\ TavilyIdle
    /\ DecodeIdle
    /\ ClientIdle

ClientNext ==
    \/ \E q \in UserQueries : Submit(q)
    \/ FetchReject
    \/ \E resp \in Responses : FetchResponse(resp)
    \/ \E n \in 1..MaxChunk : ClientRead(n)
    \/ ClientReadRest
    \/ ClientReadDone
    \/ ClientReadFail
    \/ Clear

ClientSpec == ClientInit /\ [][ClientNext]_vars

\* The awaited fetch settles.
FetchStep ==
    \/ FetchReject
    \/ \E resp \in Responses : FetchResponse(resp)

\* An awaited reader.read() settles.
ClientReadStep ==
    \/ ClientReadDone
    \/ ClientReadFail
    \/ ClientReadRest
    \/ \E n \in 1..MaxChunk : ClientRead(n)

\* A running handleSubmit keeps running: each promise it awaits settles.
ClientFairSpec ==
    /\ ClientSpec
    /\ WF_vars(FetchStep)
    /\ WF_vars(ClientReadStep)

----------------------------------------------------------------------------
(* Properties *)

EventTypes == [i \in 1..Len(events) |-> events[i].type]
LastType == IF Len(events) = 0 THEN "none" ELSE events[Len(events)].type
Terminal == {"done", "error"}
HasEvent(type) == \E i \in 1..Len(events) : events[i].type = type

\* The concatenation of the contents of the text events.
RECURSIVE TextOf(_, _)
TextOf(evs, i) ==
    IF i > Len(evs) THEN <<>>
    ELSE IF evs[i].type = "text" /\ evs[i].content.t = "string"
        THEN evs[i].content.v \o TextOf(evs, i + 1)
    ELSE TextOf(evs, i + 1)

IsPrefix(s, t) == Len(s) <= Len(t) /\ SubSeq(t, 1, Len(s)) = s

CallsOf(kind) == SelectSeq(calls, LAMBDA c : c.kind = kind)

ParseFailureLogged == "Failed to parse Gemini JSON object" \in log
UpstreamBroke == "Streaming error details" \in log

\* T is a prefix of [reformulated_query?] sources text* (done | error) that
\* holds at least the sources event.
EventGrammar(T) ==
    LET n == Len(T)
        k == IF n >= 1 /\ T[1] = "reformulated_query" THEN 2 ELSE 1
    IN  /\ n >= k
        /\ T[k] = "sources"
        /\ \A i \in (k + 1)..n :
              T[i] = "text" \/ (i = n /\ T[i] \in Terminal)

\* C1: the events of a streamed response are, in order, at most one
\* reformulated_query (first), exactly one sources, then text events, then
\* one terminal event (done or error) after which nothing is emitted; a
\* closed stream holds the whole sequence, and no event is emitted on a
\* response that is not a stream.
C1_EventOrdering ==
    /\ status # 200 => events = <<>> /\ ~closed
    /\ status = 200 => EventGrammar(EventTypes)
    /\ closed => LastType \in Terminal

C1_Witness ==
    /\ closed
    /\ EventTypes = <<"reformulated_query", "sources", "text", "text", "done">>

\* C2: every stream that is opened is closed in the end, and it is closed
\* exactly when a terminal event (done or error) has been emitted: never
\* closed without one, never left open after one.
C2_StreamClosed ==
    /\ [](status = 200 => <>closed)
    /\ [](closed <=> (status = 200 /\ LastType \in Terminal))

C2_Witness ==
    /\ closed
    /\ LastType = "error"
    /\ HasEvent("text")
    /\ pos < Len(upstream.chars)

\* C3: when the upstream body has been delivered to its end, the text
\* emitted is the text of the body, however the body was cut into chunks.
C3_SameTextForEveryChunking ==
    (closed /\ LastType = "done" /\ upstream.kind = "text")
        => TextOf(events, 1) = upstream.text

\* C4: once an upstream object with an error payload has been decoded, the
\* stream has failed: it is closed with the error event as its last event,
\* and no text of a later object has been emitted.
C4_ErrorPayloadFailsStream ==
    "Gemini returned an error" \in log
        => closed /\ LastType = "error" /\ ~HasEvent("text")

\* C5 as claimed: a stream in which a brace-balanced span failed to parse
\* ends with the error event, not with done.
C5_BadSpanEndsWithError ==
    (closed /\ upstream.kind = "bad" /\ ParseFailureLogged)
        => LastType = "error"

\* C5 as amended: a brace-balanced span that fails to parse is logged and
\* dropped; no event is emitted for it, decoding goes on with what follows
\* it, and the stream ends with done when the upstream body ends (with error
\* only when reading the upstream fails).
C5_BadSpanSkipped ==
    (upstream.kind = "bad" /\ ParseFailureLogged) =>
        /\ IsPrefix(TextOf(events, 1), upstream.text)
        /\ HasEvent("error") => UpstreamBroke
        /\ (closed /\ ~UpstreamBroke) =>
              LastType = "done" /\ TextOf(events, 1) = upstream.text

C5_Witness ==
    /\ closed
    /\ upstream.kind = "bad"
    /\ ParseFailureLogged
    /\ LastType = "done"
    /\ TextOf(events, 1) = <<"b">>

\* A request body that is not JSON, or whose query is missing, not a string
\* or the empty string.
InvalidQuery(b) ==
    \/ ~b.json
    \/ b.query.t # "string"
    \/ Len(b.query.v) = 0

\* C6: a request whose query is the empty string, missing or not a string,
\* or whose body is not JSON, is answered 400 with an error field; no event
\* stream is opened and no outbound call is issued.
C6_InvalidQueryIs400 ==
    (pc # "start" /\ InvalidQuery(body)) =>
        /\ pc = "done"
        /\ status = 400
        /\ respBody.error # ""
        /\ events = <<>>
        /\ ~closed
        /\ calls = <<>>

C6_Witness ==
    /\ status = 400
    /\ body.json
    /\ body.query.t = "string"
    /\ Len(body.query.v) = 0

\* A request body whose query is a string that is empty once trimmed.
BlankQuery(b) ==
    b.json /\ b.query.t = "string" /\ Len(Trim(b.query.v)) = 0

\* C7: a request whose query is empty once trimmed is answered 400 and
\* nothing else, and every query handed to the reformulation and search calls
\* is non-empty once trimmed.
C7_BlankQueryIs400 ==
    /\ (BlankQuery(body) /\ status # 0) => status = 400
    /\ \A i \in 1..Len(calls) :
          calls[i].kind \in {"reformulate", "search"}
              => Len(Trim(calls[i].arg)) > 0

AllSearchesOk ==
    /\ searches.original = "ok"
    /\ searches.reformulated \in {"ok", "none"}

\* C8: when every search call of the turn has succeeded, the answer is 404
\* exactly when the result sequence (merged, when two searches ran) is
\* empty, and then nothing is streamed and no generation call is issued.
C8_NoResultsIff404 ==
    (AllSearchesOk /\ status # 0) =>
        /\ status \in {200, 404}
        /\ status = 404 <=> Len(searchResults) = 0
        /\ status = 404 =>
              events = <<>> /\ ~closed /\ CallsOf("generate") = <<>>

C8_Witness ==
    /\ status = 404
    /\ searches.original = "ok"
    /\ searches.reformulated = "ok"

SearchFailureKinds == {"rejected", "network", "status", "format"}

\* C9: when a search call of the turn fails, be it one of two, the answer is
\* 500 and the turn ends there: nothing is streamed and no generation call
\* is issued.
C9_SearchFailureIs500 ==
    (\E r \in Roles : searches[r] \in SearchFailureKinds) =>
        /\ pc = "done"
        /\ status = 500
        /\ events = <<>>
        /\ ~closed
        /\ CallsOf("generate") = <<>>

C9_Witness ==
    /\ searches.original = "ok"
    /\ searches.reformulated = "format"
    /\ status = 500

\* The reformulation call failed: the fetch failed, the status was not ok,
\* or the body was not JSON.
ReformulationFailed ==
    \/ reformulation.kind \in {"network", "status"}
    \/ reformulation.kind = "ok" /\ ~JSONparse(reformulation.body).ok

\* C10: a failed reformulation call does not fail the turn: no reformulated
\* query is kept or emitted, the one search call is on the original query,
\* and the turn fails only where a turn without reformulation fails (a
\* failed search).
C10_ReformulationFailureNotFatal ==
    ReformulationFailed =>
        /\ pc # "reformulate"
        /\ reformulatedQuery = Null
        /\ searches.reformulated = "none"
        /\ ~HasEvent("reformulated_query")
        /\ CallsOf("search") = SearchCalls(query, Null)
        /\ status \in {0, 200, 404, 500}
        /\ status = 500 => searches.original \in SearchFailureKinds

C10_Witness ==
    /\ ReformulationFailed
    /\ closed
    /\ LastType = "done"
    /\ Len(CallsOf("search")) = 1

\* The generation call came back without a body to stream: a status that
\* is not ok, or no body.
GenerationStartFailed == generation.kind \in {"status", "nobody"}

StartFailureSequence ==
    /\ pc = "done"
    /\ status = 200
    /\ closed
    /\ EventTypes \in { <<"sources", "error">>,
                        <<"reformulated_query", "sources", "error">> }

LastDetails == events[Len(events)].details

\* C11 as claimed: a generation that fails to start (status not ok, or no
\* body) is reported in a 200 stream as [reformulated_query?] sources error,
\* and the details of the error event hold the upstream status and body.
C11_StartFailureHasStatusAndBody ==
    GenerationStartFailed =>
        /\ StartFailureSequence
        /\ \E i \in 1..Len(LastDetails) :
              LastDetails[i] = StatusText(generation.status)
        /\ \E i \in 1..Len(LastDetails) :
              LastDetails[i] = generation.errorText

\* C11 as amended: a generation that fails to start is reported in a 200
\* stream as [reformulated_query?] sources error; on a status that is not ok
\* the details are "Gemini API returned status <status>: <body>", and on a
\* response without a body they are "No response body from Gemini", with no
\* status and no body in them.
C11_StartFailureInStream ==
    GenerationStartFailed =>
        /\ StartFailureSequence
        /\ generation.kind = "status" =>
              LastDetails = <<"Gemini API returned status ",
                              StatusText(generation.status), ": ",
                              generation.errorText>>
        /\ generation.kind = "nobody" =>
              LastDetails = <<"No response body from Gemini">>

C11_Witness ==
    /\ generation.kind = "status"
    /\ generation.status = 503
    /\ generation.errorText = "quota exceeded"
    /\ EventTypes = <<"reformulated_query", "sources", "error">>
    /\ closed

Range(xs) == {xs[i] : i \in 1..Len(xs)}
UrlsOf(xs) == {xs[i].url : i \in 1..Len(xs)}
UniqueUrls(xs) ==
    \A i, j \in 1..Len(xs) : xs[i].url = xs[j].url => i = j
SortedByScore(xs) ==
    \A i \in 1..(Len(xs) - 1) : xs[i].score >= xs[i + 1].score
MergeDone == merged # NotMerged
\* Each argument is a result set: no URL twice in it.
ResultSets == UniqueUrls(results1) /\ UniqueUrls(results2)
SharedUrls == UrlsOf(results1) \cap UrlsOf(results2)

\* C14: in mergeSearchResults(a, b) every URL of a or b appears exactly
\* once, every entry is an entry of a or b, the entries are in descending
\* order of score, and (a and b being result sets) the entry kept for a URL
\* of both has the higher of the two scores.
C14_MergeDedupSorted ==
    MergeDone =>
        /\ UniqueUrls(merged)
        /\ UrlsOf(merged) = UrlsOf(results1) \cup UrlsOf(results2)
        /\ Range(merged) \subseteq Range(results1) \cup Range(results2)
        /\ SortedByScore(merged)
        /\ ResultSets =>
              \A m \in Range(merged), e \in Range(results1) \cup Range(results2) :
                  e.url = m.url => m.score >= e.score

C14_Witness ==
    /\ MergeDone
    /\ ResultSets
    /\ Len(merged) = 2
    /\ \E m \in Range(merged), e \in Range(results1) :
          m.title = "B" /\ e.url = m.url /\ e.score < m.score

\* No URL of both arguments has the same score in both.
SharedScoresDiffer ==
    \A e1 \in Range(results1), e2 \in Range(results2) :
        e1.url = e2.url => e1.score # e2.score

\* C15: for result sets a and b in which a shared URL has different scores,
\* mergeSearchResults(a, b) and mergeSearchResults(b, a) hold the same
\* entries, and both are in descending order of score.
C15_MergeCommutes ==
    (MergeDone /\ ResultSets /\ SharedScoresDiffer) =>
        /\ Range(merged) = Range(mergeSearchResults(results2, results1))
        /\ SortedByScore(merged)
        /\ SortedByScore(mergeSearchResults(results2, results1))

C15_Witness ==
    /\ MergeDone
    /\ ResultSets
    /\ SharedScoresDiffer
    /\ SharedUrls # {}
    /\ merged # mergeSearchResults(results2, results1)

\* C16: mergeSearchResults(a, []) holds the entries of the result set a, each
\* once, in descending order of score.
C16_MergeWithEmpty ==
    (MergeDone /\ results2 = <<>> /\ UniqueUrls(results1)) =>
        /\ Len(merged) = Len(results1)
        /\ Range(merged) = Range(results1)
        /\ SortedByScore(merged)

C16_Witness ==
    /\ MergeDone
    /\ results2 = <<>>
    /\ Len(results1) = 2
    /\ UniqueUrls(results1)
    /\ results1[1].score < results1[2].score

SanitizeDone == sanitized # NotSanitized
IsString(x) == x.t = "string"
EndsWith(s, t) ==
    Len(s) >= Len(t) /\ SubSeq(s, Len(s) - Len(t) + 1, Len(s)) = t

\* C18: processRawContent applied to what it returned for a string of fewer
\* than maxLength characters returns it unchanged.
C18_SanitizeIdempotent ==
    (SanitizeDone /\ IsString(rawContent) /\ Len(rawContent.v) < maxLength)
        => processRawContent(JStr(sanitized)) = sanitized

\* C19: what processRawContent returns has at most maxLength characters and
\* the three of the ellipsis, and at most maxLength characters when it does
\* not end with the ellipsis.
C19_SanitizedLength ==
    SanitizeDone =>
        /\ Len(sanitized) <= maxLength + Len(Ellipsis)
        /\ ~EndsWith(sanitized, Ellipsis) => Len(sanitized) <= maxLength

C19_Witness ==
    /\ SanitizeDone
    /\ Len(sanitized) = maxLength + Len(Ellipsis)
    /\ EndsWith(sanitized, Ellipsis)

\* The last position of the first maxLength characters of c that holds a
\* character of M, or 0.
LastIn(c, M) ==
    LET I == {i \in 1..maxLength : i <= Len(c) /\ c[i] \in M} IN
    IF I = {} THEN 0 ELSE CHOOSE i \in I : \A j \in I : j <= i

\* C20: with c the cleaned text: c of at most maxLength characters is
\* returned as it is; a longer c is cut right after the last '.', '?' or '!'
\* of its first maxLength characters when that mark lies beyond 80% of the
\* window (index above 0.8 * maxLength), with no ellipsis; otherwise it is
\* cut before the last blank of the window, or at the window when there is
\* none, and the ellipsis is appended.
C20_TruncationRule ==
    (SanitizeDone /\ IsString(rawContent)) =>
        LET c    == CleanText(rawContent.v)
            mark == LastIn(c, {".", "?", "!"})
            sp   == LastIn(c, {" "})
        IN  IF Len(c) <= maxLength THEN sanitized = c
            ELSE IF (mark - 1) * 10 > maxLength * 8
                THEN sanitized = Trim(SubSeq(c, 1, mark))
            ELSE IF sp > 1
                THEN sanitized = Trim(SubSeq(c, 1, sp - 1)) \o Ellipsis
            ELSE sanitized = Trim(SubSeq(c, 1, maxLength)) \o Ellipsis

C20_Witness ==
    /\ SanitizeDone
    /\ IsString(rawContent)
    /\ Len(rawContent.v) > maxLength
    /\ Len(sanitized) > (maxLength * 8) \div 10
    /\ Len(sanitized) < maxLength
    /\ sanitized[Len(sanitized)] = "?"

\* The sources of the sources event of the stream.
SourcesSent ==
    events[CHOOSE i \in 1..Len(events) : events[i].type = "sources"].sources
PromptSent == CallsOf("generate")[1].arg

\* C17: the result the prompt numbers k is the k-th entry of the sources
\* event of the turn, with its title, its URL and its content (sanitized, or
\* its snippet), and the client renders citation k with that k-th entry.
C17_CitationsPositional ==
    CallsOf("generate") # <<>> =>
        /\ HasEvent("sources")
        /\ SourcesSent = searchResults
        /\ Len(PromptSent.sourcesContext) = Len(SourcesSent)
        /\ \A k \in 1..Len(SourcesSent) :
              /\ PromptSent.sourcesContext[k].number = k
              /\ PromptSent.sourcesContext[k].title = SourcesSent[k].title
              /\ PromptSent.sourcesContext[k].url = SourcesSent[k].url
              /\ PromptSent.sourcesContext[k].content
                    \in {SourcesSent[k].fullContent, SourcesSent[k].content}
              /\ CitedSource(SourcesSent, k) = SourcesSent[k]

C17_Witness ==
    /\ CallsOf("generate") # <<>>
    /\ Truthy(reformulatedQuery)
    /\ searches.reformulated = "ok"
    /\ Len(searchResults) = 2
    /\ searchResults[1].fullContent # searchResults[1].content

\* The response is a stream that holds an event of the type.
StreamHas(type) ==
    response.ok /\ \E i \in 1..Len(response.types) : response.types[i] = type
StreamEndsWithDone ==
    /\ response.ok
    /\ Len(response.types) > 0
    /\ response.types[Len(response.types)] = "done"
    /\ ~StreamHas("error")

\* C12: the history of the page is the history the turn was submitted with,
\* with at most one entry appended to it, and an entry is appended only
\* when the response of the turn is a stream that ends with done.
C12_AppendOnlyOnDone ==
    /\ IsPrefix(turn.sentHistory, ui.conversationHistory)
    /\ Len(ui.conversationHistory) <= Len(turn.sentHistory) + 1
    /\ ui.conversationHistory # turn.sentHistory => StreamEndsWithDone

\* C13: when the page has read a stream that holds an error event to its
\* end, the turn has ended in the error state: the error message is set and
\* no entry was appended.
C13_StreamErrorShown ==
    (turn.pc = "idle" /\ StreamHas("error")
       /\ turn.pos = Len(response.bytes)) =>
        /\ ui.error # Null
        /\ ui.conversationHistory = turn.sentHistory

\* The search stage has completed: only then is a response 200 or 404.
SearchCompleted == status \in {200, 404}

\* The results the per-result step is applied to: the merged results, or
\* the results of the single search.
MapInput ==
    IF Truthy(reformulatedQuery)
        THEN mergeSearchResults(found.original, found.reformulated)
        ELSE found.original

\* The full content of a result whose sanitization does not fail.
OwnFullContent(result) ==
    IF Truthy(result.raw_content) THEN processRawContent(result.raw_content)
                                  ELSE result.content

\* C21: a result whose sanitization fails gets its own snippet as full
\* content, every other result gets the full content it gets on its own, the
\* results are as many and in the same order as before the step, the failure
\* is logged, and the turn goes on to open the stream with the sources.
C21_SanitizeFailureIsolated ==
    SearchCompleted =>
        /\ Len(searchResults) = Len(MapInput)
        /\ \A k \in 1..Len(MapInput) :
              /\ searchResults[k].url = MapInput[k].url
              /\ searchResults[k].title = MapInput[k].title
              /\ searchResults[k].content = MapInput[k].content
              /\ searchResults[k].fullContent =
                    IF SanitizeFails(MapInput[k]) THEN MapInput[k].content
                    ELSE OwnFullContent(MapInput[k])
        /\ (\E k \in 1..Len(MapInput) : SanitizeFails(MapInput[k])) =>
              /\ status = 200
              /\ HasEvent("sources")
              /\ SourcesSent = searchResults
              /\ CallsOf("generate") # <<>>
              /\ "Failed to process raw_content" \in log

\* A turn with a result whose sanitization failed next to one whose
\* sanitization changed its content, streamed to its end.
C21_Witness ==
    /\ SearchCompleted
    /\ pc = "done"
    /\ LastType = "done"
    /\ HasEvent("text")
    /\ \E k, j \in 1..Len(MapInput) :
          /\ SanitizeFails(MapInput[k])
          /\ searchResults[k].fullContent = <<"c">>
          /\ ~SanitizeFails(MapInput[j])
          /\ searchResults[j].fullContent # searchResults[j].content

\* The search calls that went out: the calls not rejected before their fetch.
SearchesIssued == {r \in Roles : searches[r] \notin {"none", "rejected"}}

\* C22: in one request at most one reformulation call, at most one
\* generation call and at most two search calls are issued, the search calls
\* being one per role: one on the original query and, only with a
\* reformulated query, one on the reformulated query; this holds whatever
\* has failed.
C22_NoRetry ==
    /\ Len(CallsOf("reformulate")) <= 1
    /\ Len(CallsOf("generate")) <= 1
    /\ Len(CallsOf("search")) <= (IF Truthy(reformulatedQuery) THEN 2 ELSE 1)
    /\ Len(CallsOf("search")) = Cardinality(SearchesIssued)
    /\ \A i \in 1..Len(CallsOf("search")) :
          \E r \in SearchesIssued :
              CallsOf("search")[i].arg = SearchArgs(query, reformulatedQuery)[r]
    /\ Len(CallsOf("search")) = 2 =>
          /\ CallsOf("search")[1].arg = query
          /\ CallsOf("search")[2].arg = reformulatedQuery.v
    /\ Len(calls) <= 4

\* All four calls were issued, and the generation call failed.
C22_Witness ==
    /\ Len(CallsOf("reformulate")) = 1
    /\ Len(CallsOf("search")) = 2
    /\ Len(CallsOf("generate")) = 1
    /\ generation.kind = "status"
    /\ pc = "done"

\* C23: with a reformulated query both search calls are issued before
\* either is awaited; the merge is computed only when both have come back
\* with results, and it is the merge of the results of the original query
\* with those of the reformulated query, whichever call came back last.
C23_ConcurrentSearchThenMerge ==
    Truthy(reformulatedQuery) =>
        /\ pc = "search" =>
              /\ Len(CallsOf("search")) = 2
              /\ \A r \in Roles : searches[r] \in {"pending", "ok"}
              /\ searchResults = <<>>
        /\ SearchCompleted =>
              /\ \A r \in Roles : searches[r] = "ok"
              /\ Len(settled) = 2
              /\ searchResults =
                    ProcessResults(mergeSearchResults(found.original,
                                                      found.reformulated))

\* The call on the original query came back last, and the order of the
\* arguments of the merge matters for the results found.
C23_Witness ==
    /\ Truthy(reformulatedQuery)
    /\ SearchCompleted
    /\ settled = <<"reformulated", "original">>
    /\ Len(searchResults) = 3
    /\ mergeSearchResults(found.original, found.reformulated)
          # mergeSearchResults(found.reformulated, found.original)

\* The request received is valid, and a required key is missing.
ValidRequest == body.json /\ searchRequestSchema(body).success
KeyMissing == ~env.google \/ ~env.tavily
NamesMissingKey ==
    \/ ~env.google /\ "GOOGLE_GENERATIVE_AI_API_KEY is not configured"
                        \in {respBody.error, respBody.details}
    \/ ~env.tavily /\ "TAVILY_API_KEY is not configured"
                        \in {respBody.error, respBody.details}

\* C24: a valid request received while a required key is missing is
\* answered at once with status 500 and an error naming the missing key, and
\* no outbound call has been issued for it.
C24_MissingKeyFailsFast ==
    (pc # "start" /\ ValidRequest /\ KeyMissing) =>
        /\ pc = "done"
        /\ status = 500
        /\ NamesMissingKey
        /\ calls = <<>>

\* The text of a message given as the parts of its template literal is
\* not empty.
NonEmptyText(parts) == \E i \in 1..Len(parts) : parts[i] # ""

\* C25: a response that is not the stream has status 400, 404 or 500 and a
\* body with a non-empty error summary and non-empty details that are not
\* the summary again; every error event of a stream has a non-empty error
\* summary and non-empty details.
C25_ErrorsCarrySummaryAndDetails ==
    /\ (pc = "done" /\ status # 200) =>
          /\ status \in {400, 404, 500}
          /\ respBody.error # ""
          /\ respBody.details # ""
          /\ respBody.details # respBody.error
    /\ \A i \in 1..Len(events) :
          events[i].type = "error" =>
              /\ events[i].error # ""
              /\ NonEmptyText(events[i].details)

\* A stream that broke after a text event: its error event is the last.
C25_Witness ==
    /\ status = 200
    /\ HasEvent("text")
    /\ LastType = "error"
    /\ generation.kind = "ok"
    /\ closed

\* searchTavily has returned to the turn.
TavilyDone == tavilyReturn # NotCalled

RECURSIVE EmittedTextFrom(_, _)
EmittedTextFrom(evs, i) ==
    IF i > Len(evs) THEN <<>>
    ELSE IF Get(evs[i], <<"type">>) = Word("text")
        THEN Get(evs[i], <<"content">>).v \o EmittedTextFrom(evs, i + 1)
    ELSE EmittedTextFrom(evs, i + 1)
EmittedText == EmittedTextFrom(response.events, 1)

\* The page has read the whole body of the streamed response of the turn.
ReadToEnd ==
    /\ response.ok
    /\ turn.pc \in {"read", "idle"}
    /\ turn.pos = Len(response.bytes)

\* C27: while the page reads a stream the answer it has accumulated is a
\* prefix of the concatenation of the contents of the text events emitted;
\* once it has read the whole body the answer is the whole concatenation,
\* and so is the answer of the entry appended; for every split of the body
\* into chunks.
C27_AnswerIsConcatenation ==
    /\ turn.pc = "read" => IsPrefix(turn.finalAnswer, EmittedText)
    /\ ReadToEnd => turn.finalAnswer = EmittedText
    /\ (ReadToEnd /\ Len(ui.conversationHistory) > Len(turn.sentHistory)) =>
          ui.conversationHistory[Len(ui.conversationHistory)].answer
              = EmittedText

\* A stream with two text events, one with a line feed and one with a
\* brace in its content, read to its end in chunks of which one ended
\* inside a line.
C27_Witness ==
    /\ ReadToEnd
    /\ turn.torn
    /\ turn.finalAnswer = <<"\n", "d", "}">>
    /\ Len(ui.conversationHistory) = 1

\* The request received is valid and holds no conversation history, or an
\* empty one.
NoHistoryRequest ==
    /\ pc # "start"
    /\ ValidRequest
    /\ \/ body.conversationHistory = Undefined
       \/ body.conversationHistory = JArr(<<>>)

\* C28: for a valid request without history no reformulation call is ever
\* issued, no search on a reformulated query is made, nothing is merged and
\* the stream holds no reformulated_query event; once the handler is past
\* its key check searchTavily has been called exactly once, on the original
\* query, and its fetch is the one search call issued, unless searchTavily
\* rejected the call before its fetch.
C28_NoHistorySkipsReformulation ==
    NoHistoryRequest =>
        /\ CallsOf("reformulate") = <<>>
        /\ reformulation = NoCall
        /\ reformulatedQuery = Null
        /\ searches.reformulated = "none"
        /\ found.reformulated = <<>>
        /\ ~HasEvent("reformulated_query")
        /\ env.google =>
              /\ searches.original # "none"
              /\ CallsOf("search") =
                    IF searches.original = "rejected" THEN <<>>
                    ELSE <<[kind |-> "search", arg |-> query]>>
        /\ SearchCompleted => searchResults = ProcessResults(found.original)
        /\ HasEvent("sources") => events[1].type = "sources"

\* A request with an empty history array, answered with a stream to its end.
C28_Witness ==
    /\ NoHistoryRequest
    /\ body.conversationHistory = JArr(<<>>)
    /\ Len(CallsOf("search")) = 1
    /\ Len(searchResults) = 2
    /\ LastType = "done"

\* A handleSubmit is running.
TurnInFlight == turn.pc # "idle"

\* C29: the form is disabled exactly while a handleSubmit is running, so no
\* turn is submitted while one is in flight; and a page that is loading is
\* eventually not loading any more.
C29_OneTurnAndLoadingEnds ==
    /\ [](TurnInFlight <=> ui.loading)
    /\ (ui.loading ~> ~ui.loading)

\* A turn that got an error response has left the loading state.
C29_Witness ==
    /\ ~ui.loading
    /\ ~TurnInFlight
    /\ turn.submittedQuery # <<>>
    /\ ~response.ok
    /\ response.status = 500
    /\ ui.error = Word("Failed to fetch search results for query")

\* The concatenation of the first n of the texts.
RECURSIVE ConcatFirst(_, _)
ConcatFirst(texts, n) ==
    IF n = 0 THEN <<>> ELSE ConcatFirst(texts, n - 1) \o texts[n]

\* The text events among the events, and the texts that are not empty among
\* the texts of the first n objects of the body.
TextEvents(evs) == SelectSeq(evs, LAMBDA e : e.type = "text")
Fragments(n) ==
    SelectSeq(SubSeq(wire.texts, 1,
                     IF n > Len(wire.texts) THEN Len(wire.texts) ELSE n),
              LAMBDA t : t # <<>>)

\* C30: of a body whose objects hold braces, brackets, commas, escaped
\* quotes and escaped backslashes inside their strings, the spans sliced off
\* the buffer are the objects of the body, each whole and in order, whatever
\* the chunks; each parses, and the texts emitted are the texts the strings
\* stand for.
C30_ScanNotFooledByStrings ==
    /\ IsPrefix(dec.spans, wire.objects)
    /\ dec.log = {}
    /\ Len(TextEvents(dec.out)) = Len(Fragments(Len(dec.spans)))
    /\ TextOf(dec.out, 1) = ConcatFirst(wire.texts, Len(dec.spans))

\* A body fed to its end, of which both objects were sliced off, the first
\* holding an escaped backslash, an escaped quote and a brace in its string.
C30_Witness ==
    /\ fed = Len(wire.chars)
    /\ fed > 0
    /\ dec.spans = wire.objects
    /\ wire.texts[1] = <<BS, Q, "{">>
    /\ TextOf(dec.out, 1) = wire.texts[1] \o wire.texts[2]

\* The buffer starts, after its leading whitespace, with '{'.
StartsObject(b) == TrimStart(b) # <<>> /\ TrimStart(b)[1] = "{"

\* Where in the body the object ends that the decoder is to slice off
\* next; past the end of the body when the body holds no further whole
\* object.
NextEnd ==
    IF Len(dec.spans) < Len(wire.ends) THEN wire.ends[Len(dec.spans) + 1]
    ELSE Len(wire.chars) + 1

\* C31: a chunk after which the buffer starts with '{' while the object has
\* not yet come to its end leaves the buffer as it was with the chunk
\* appended, and enqueues, logs and slices off nothing; the chunk that brings
\* the end of an object the buffer was waiting for gets this object sliced
\* off whole.
C31_IncompleteObjectWaits ==
    [][LET joined == dec.buffer \o SubSeq(wire.chars, fed + 1, fed')
           k      == Len(dec.spans) + 1
       IN  /\ (fed' > fed /\ StartsObject(joined) /\ fed' < NextEnd) =>
                 dec' = [dec EXCEPT !.buffer = joined]
           /\ (fed' > fed /\ StartsObject(dec.buffer) /\ fed < NextEnd
                 /\ fed' >= NextEnd) =>
                    /\ Len(dec'.spans) >= k
                    /\ dec'.spans[k] = wire.objects[k]
                    /\ Len(dec'.buffer) <= fed' - NextEnd]_vars

\* The second object is waiting in the buffer, which has grown over more
\* than one chunk and holds all that was fed of the object.
C31_Witness ==
    /\ StartsObject(dec.buffer)
    /\ fed < NextEnd
    /\ Len(dec.spans) = 1
    /\ Len(dec.buffer) > 2 * MaxChunk
    /\ dec.buffer = SubSeq(wire.chars, fed - Len(dec.buffer) + 1, fed)

\* The buffer starts, after its leading whitespace, with a framing token.
StartsWithToken(b) ==
    TrimStart(b) # <<>> /\ TrimStart(b)[1] \in {"[", "]", ","}

\* C32: a chunk after which the buffer starts with a framing token and holds
\* the whole of the next object gets this object sliced off in the same pass.
C32_ObjectAfterFramingToken ==
    [][LET joined == dec.buffer \o SubSeq(wire.chars, fed + 1, fed') IN
       (fed' > fed /\ StartsWithToken(joined) /\ fed < NextEnd
          /\ fed' >= NextEnd) =>
             Len(dec'.spans) > Len(dec.spans)]_vars

\* C33: the text events enqueued are one for each object sliced off whose
\* text is not empty, in the order of the body, each with this text; an
\* object whose text is empty or absent enqueues nothing, and no text event
\* has an empty content.
C33_OneTextPerFragment ==
    /\ Len(TextEvents(dec.out)) = Len(Fragments(Len(dec.spans)))
    /\ \A i \in 1..Len(TextEvents(dec.out)) :
          /\ TextEvents(dec.out)[i].content.t = "string"
          /\ TextEvents(dec.out)[i].content.v = Fragments(Len(dec.spans))[i]
          /\ TextEvents(dec.out)[i].content.v # <<>>

\* Both objects sliced off, one with a text and one without: one text event.
C33_Witness ==
    /\ Len(dec.spans) = 2
    /\ wire.texts[1] = <<>>
    /\ wire.texts[2] # <<>>
    /\ Len(TextEvents(dec.out)) = 1

\* C34: once the upstream has closed, the stream ends with done and holds
\* no error event, whatever the buffer holds.
C34_CloseEndsWithDone ==
    dec.closed =>
        /\ dec.out # <<>>
        /\ dec.out[Len(dec.out)] = DoneEvent
        /\ \A i \in 1..Len(dec.out) : dec.out[i].type # "error"

\* The upstream closed in the middle of an object: the buffer holds the
\* incomplete object and the stream ended with done.
C34_Witness ==
    /\ dec.closed
    /\ Len(dec.spans) = 2
    /\ Len(wire.chars) > wire.ends[2] + 1
    /\ StartsObject(dec.buffer)
    /\ dec.out[Len(dec.out)] = DoneEvent

\* The kinds of the outbound calls issued, in order.
CallKinds == [i \in 1..Len(calls) |-> calls[i].kind]

\* An error response, or the error event of a stream, has been produced.
ErrorProduced == status >= 400 \/ LastType = "error"

\* C35: while the reformulation call is out no other call has been issued;
\* the calls go out in the order reformulation, searches, generation; the
\* generation call is out only when every search has come back and the
\* sources event is on the stream; and once an error response or event has
\* been produced no further call is issued.
C35_StagesSequential ==
    /\ [](/\ reformulation = Pending => CallKinds = <<"reformulate">>
          /\ \A i, j \in 1..Len(calls) :
                (i < j /\ CallKinds[i] = "search") =>
                    CallKinds[j] \in {"search", "generate"}
          /\ \A i \in 1..Len(calls) :
                CallKinds[i] = "generate" =>
                    /\ i = Len(calls)
                    /\ HasEvent("sources")
                    /\ \A r \in Roles : searches[r] # "pending")
    /\ [][ErrorProduced => calls' = calls]_vars

\* A turn with all four calls, read to its end.
C35_Witness ==
    /\ CallKinds = <<"reformulate", "search", "search", "generate">>
    /\ pc = "done"
    /\ LastType = "done"
    /\ HasEvent("text")

\* The reformulation call was made and came back with a body that parses.
ReformulationReturned ==
    reformulation.kind = "ok" /\ JSONparse(reformulation.body).ok

\* The reformulated_query events of the stream.
ReformulatedEvents ==
    SelectSeq(events, LAMBDA e : e.type = "reformulated_query")

\* C37: on a streamed response there is a reformulated_query event, and only
\* one, exactly when the reformulation call came back with a body that
\* parses, and exactly then two searches were issued and the sources are
\* those of the merge of both; when the text that came back is blank the
\* event holds the query of the request and both searches were on it.
C37_ReformulatedEventIffReturned ==
    status = 200 =>
        /\ Len(ReformulatedEvents) = (IF ReformulationReturned THEN 1 ELSE 0)
        /\ Len(CallsOf("search")) = (IF ReformulationReturned THEN 2 ELSE 1)
        /\ ReformulationReturned =>
              /\ CallsOf("reformulate") # <<>>
              /\ CallsOf("search")[1].arg = query
              /\ CallsOf("search")[2].arg = ReformulatedEvents[1].query
              /\ SourcesSent =
                    ProcessResults(mergeSearchResults(found.original,
                                                      found.reformulated))
        /\ ~ReformulationReturned => SourcesSent = ProcessResults(found.original)
        /\ (ReformulationReturned
              /\ reformulation.body = GeminiText(<<" ">>)) =>
                 /\ ReformulatedEvents[1].query = query
                 /\ CallsOf("search")[2].arg = query

\* A streamed turn whose reformulation call came back with a blank text:
\* the query was searched twice and the event holds it.
C37_Witness ==
    /\ status = 200
    /\ pc = "done"
    /\ reformulation.body = GeminiText(<<" ">>)
    /\ Len(ReformulatedEvents) = 1
    /\ ReformulatedEvents[1].query = query
    /\ Len(CallsOf("search")) = 2
    /\ CallsOf("search")[1].arg = CallsOf("search")[2].arg
    /\ found.original # found.reformulated

\* C38: a click on Clear conversation while a turn is in flight (a turn
\* that was submitted with a history) empties the history at once, and the
\* history stays empty while the turn runs; when the turn then completes its
\* entry is appended to the emptied history, which then holds this entry
\* alone; when it fails the history stays empty.
C38_ClearInFlight ==
    /\ [](turn.cleared =>
            /\ turn.sentHistory # <<>>
            /\ TurnInFlight => ui.conversationHistory = <<>>)
    /\ [][(turn.cleared /\ TurnInFlight /\ turn'.pc = "idle") =>
            /\ ui'.error = Null =>
                  /\ ui'.conversationHistory = <<Entry(turn)>>
                  /\ ui'.conversationHistory[1].query = turn.submittedQuery
            /\ ui'.error # Null => ui'.conversationHistory = <<>>]_vars

\* A second turn, cleared in flight, has completed: the history holds its
\* entry alone, and the turn was sent with the entry of the first.
C38_Witness ==
    /\ turn.cleared
    /\ ~TurnInFlight
    /\ ui.error = Null
    /\ Len(turn.sentHistory) = 1
    /\ ui.conversationHistory = <<Entry(turn)>>
    /\ turn.finalAnswer # <<>>

\* The last entry of xs with the url u, and the highest score among the
\* entries of xs with the url u.
LastWith(xs, u) ==
    xs[CHOOSE i \in 1..Len(xs) :
          /\ xs[i].url = u
          /\ \A j \in (i + 1)..Len(xs) : xs[j].url # u]
BestScore(xs, u) ==
    CHOOSE n \in 1..MaxScore :
        /\ \E i \in 1..Len(xs) : xs[i].url = u /\ xs[i].score = n
        /\ \A i \in 1..Len(xs) : xs[i].url = u => xs[i].score <= n

\* The entries of the merge with the url u.
Survivors(u) == SelectSeq(merged, LAMBDA r : r.url = u)

\* C39: every url of the arguments has one entry in the merge.  For a url
\* of the first argument it is the last entry of the first argument with
\* this url, whatever its score, unless an entry of the second argument
\* with this url has a strictly higher score; an entry of the second
\* argument survives with the highest score of its url in the second
\* argument.
C39_MergeTieBreaks ==
    MergeDone =>
        \A u \in UrlsOf(results1) \cup UrlsOf(results2) :
            /\ Len(Survivors(u)) = 1
            /\ IF u \in UrlsOf(results1)
                  /\ (u \in UrlsOf(results2) =>
                        BestScore(results2, u) <= LastWith(results1, u).score)
                 THEN Survivors(u)[1] = LastWith(results1, u)
                 ELSE /\ Survivors(u)[1].title = "B"
                      /\ Survivors(u)[1].score = BestScore(results2, u)

\* The first argument holds a url twice, its last entry with the lower
\* score, and the second argument holds the url with the same score as this
\* last entry: the last entry of the first argument survives.
C39_Witness ==
    /\ MergeDone
    /\ Len(results1) = 2
    /\ results1[1].url = results1[2].url
    /\ results1[1].score > results1[2].score
    /\ \E i \in 1..Len(results2) :
          /\ results2[i].url = results1[2].url
          /\ results2[i].score = results1[2].score
    /\ Survivors(results1[2].url) = <<results1[2]>>

\* C36: an iteration of the inner loop leaves the buffer strictly shorter
\* or leaves the loop, whatever the buffer holds; so the loop entered for a
\* chunk runs at most as many iterations as the buffer it was entered with
\* has characters.
C36_DecodeLoopTerminates ==
    /\ [][(dec.inLoop /\ dec'.iterations > dec.iterations) =>
            \/ Len(dec'.buffer) < Len(dec.buffer)
            \/ ~dec'.inLoop]_vars
    /\ [](dec.iterations <= dec.entered)

\* The loop has been left with an empty buffer after a body that starts
\* with a closing brace and holds an opening brace with no end.
C36_Witness ==
    /\ ~dec.inLoop
    /\ dec.iterations = 1
    /\ fed = Len(wire.chars)
    /\ Len(wire.chars) = MaxGarbage
    /\ wire.chars[1] = "}"
    /\ wire.chars[2] = "{"
    /\ dec.buffer = SubSeq(wire.chars, 2, Len(wire.chars))

====
